---- MODULE Spec2Model ----
(***************************************************************************)
(* Model of the YiMengQing plugin's check-in handler                       *)
(* (handlers/checkin.py) and the state it persists in checkin_data.json,   *)
(* of the JSON documents of the data directory (config.py), of the         *)
(* divination draw (handlers/divination.py, services/astrology.py) and of  *)
(* the admin surfaces (handlers/developer.py, core.py).                    *)
(*                                                                         *)
(* Spec runs every handle_checkin call from entry to return in one step.   *)
(* SpecSerial and SpecAsync split the call at each of its awaits:          *)
(* SpecSerial starts a call only when no other is in flight, SpecAsync     *)
(* lets two calls interleave at every await.  SpecStore runs the           *)
(* persistence operations over a data directory that can be damaged,       *)
(* SpecDraw the divination draws, SpecDev the admin surfaces.              *)
(***************************************************************************)
EXTENDS Integers, Sequences, FiniteSets, TLC

\* ------------------------------------------------------------------ bounds
\* Days the clock can show: 1..MaxDay.
MaxDay == 3

\* Invocations started in the stepwise specifications.
MaxRuns == 3

\* Days the clock can show while the astrology service runs:
\* 1..ServiceDays.
ServiceDays == 2

\* Times of day (minutes after midnight) at which the clock is sampled:
\* 04:59, 05:00, 12:00, 20:00.
TimePoints == {299, 300, 720, 1200}

\* Subjects (user_id, group_id) that send the check-in command.  The two
\* pairs are chosen so that their decimal renderings concatenate to the
\* same digits ("1"+"23" and "12"+"3").
Subjects == {<<1, 23>>, <<12, 3>>}

\* ------------------------------------------------------------ clock, dates
\* First day shown by the clock (day 1) is 2023-12-30, so that the modelled
\* days cross a month end and a year end.
EpochDate == <<2023, 12, 29>>

IsLeap(y) == (y % 4 = 0 /\ y % 100 # 0) \/ y % 400 = 0

DaysInMonth(y, m) ==
    IF m = 2 THEN (IF IsLeap(y) THEN 29 ELSE 28)
    ELSE IF m \in {4, 6, 9, 11} THEN 30 ELSE 31

NextDate(d) ==
    IF d[3] < DaysInMonth(d[1], d[2]) THEN <<d[1], d[2], d[3] + 1>>
    ELSE IF d[2] < 12 THEN <<d[1], d[2] + 1, 1>>
    ELSE <<d[1] + 1, 1, 1>>

RECURSIVE StrfDate(_)
\* strftime("%Y-%m-%d") of the date that is `day` days after EpochDate; the
\* string is kept as its three fields <<year, month, day-of-month>>.
StrfDate(day) == IF day = 0 THEN EpochDate ELSE NextDate(StrfDate(day - 1))

\* strftime("%H:%M:%S"), kept as <<hour, minute, second>>.
StrfTime(tod) == <<tod \div 60, tod % 60, 0>>

\* The empty string stored in last_date of a fresh record.
EmptyStr == << >>

\* time_utils.get_time_period: morning [05:00,12:00), afternoon
\* [12:00,20:00), night otherwise.
GetTimePeriod(tod) ==
    IF tod >= 300 /\ tod < 720 THEN "morning"
    ELSE IF tod >= 720 /\ tod < 1200 THEN "afternoon"
    ELSE "night"

\* ------------------------------------------------------------ document keys
DigitChar == <<"0", "1", "2", "3", "4", "5", "6", "7", "8", "9">>

RECURSIVE IntStr(_)
\* str(n) for a non-negative integer, as a sequence of characters.
IntStr(n) ==
    IF n < 10 THEN <<DigitChar[n + 1]>>
    ELSE IntStr(n \div 10) \o <<DigitChar[(n % 10) + 1]>>

\* f"{user_id}_{group_id}" without the separator.
KeyNoSeparator(user_id, group_id) == IntStr(user_id) \o IntStr(group_id)

\* f"{user_id}_{group_id}"
Key(user_id, group_id) == IntStr(user_id) \o <<"_">> \o IntStr(group_id)

\* dict.get(key, default)
DictGet(d, key, default) == IF key \in DOMAIN d THEN d[key] ELSE default

\* d[key] = value
DictSet(d, key, value) ==
    [k \in DOMAIN d \cup {key} |-> IF k = key THEN value ELSE d[k]]

\* The empty JSON object {}.
EmptyDict == [k \in {} |-> 0]

\* ------------------------------------------------------------------ state
VARIABLES
    clock,            \* datetime.now(): [day, tod (minutes after midnight)]
    file,             \* content of checkin_data.json
    horoscope_cache,  \* CheckinHandler.horoscope_cache ("None" when unset)
    cache_time,       \* CheckinHandler.cache_time: << >> (None) or <<minutes>>
    last,             \* the invocation that has just returned: its arguments,
                      \* the clock it read, the branch it took, the document
                      \* before it ran and the bot.send_group_msg calls it made
    pc,               \* stepwise specs: position of each invocation
    loc,              \* stepwise specs: local variables of each invocation
    order,            \* stepwise specs: the loads and saves of each slot's
                      \* latest invocation since the clock last moved, in
                      \* the order they happened
    runs,             \* stepwise specs: invocations started so far
    disk,             \* the data directory: what each JSON file holds
    blacklist,        \* ConfigManager.blacklist
    whitelist,        \* ConfigManager.whitelist
    stored,           \* the persistence operation that has just ended
    history,          \* DivinationHandler.history
    drawn,            \* the handle_divination call that has just ended
    agents,           \* config.agents
    group_approve_mode, \* config.group_approve_mode
    shutdown_codes,   \* DeveloperHandler.shutdown_codes
    reply,            \* the admin-surface call that has just ended
    issued,           \* for each shutdown code, who asked for it last and when
    service_cache,    \* AstrologyService.horoscope_cache
    fetching,         \* the get_daily_horoscope calls waiting on the network
    answered,         \* the get_daily_horoscope call that has just returned
    first_result,     \* per (date, sign), the first result ever returned
    request,          \* the handle_request call that has just ended
    blocked_words,    \* ConfigManager.blocked_words
    permission_requests, \* DeveloperHandler.permission_requests
    handled           \* the handle_message call that has just ended

vars ==
    <<clock, file, horoscope_cache, cache_time, last, pc, loc, order, runs,
      disk, blacklist, whitelist, stored, history, drawn, agents,
      group_approve_mode, shutdown_codes, reply, issued, service_cache,
      fetching, answered, first_result, request, blocked_words,
      permission_requests, handled>>

\* The state of the check-in handler, which the other surfaces leave alone.
checkinVars ==
    <<clock, file, horoscope_cache, cache_time, last, pc, loc, order, runs>>

\* The state of the data directory and of the membership lists.
storeVars == <<disk, blacklist, whitelist, stored>>

\* The state of the divination handler.
divVars == <<history, drawn>>

\* The state of the admin surfaces.
devVars == <<agents, group_approve_mode, shutdown_codes, reply, issued>>

\* The state of the astrology service.
svcVars == <<service_cache, fetching, answered, first_result>>

\* The state of the join-request and message pipelines.
gateVars == <<request, blocked_words, permission_requests, handled>>

\* The state only the astrology service and the two pipelines use.
moreVars == <<svcVars, gateVars>>

\* The state handle_checkin neither reads nor writes.
extVars == <<storeVars, divVars, devVars, moreVars>>

\* Minutes elapsed since midnight of day 0.
AbsMinutes(now) == now.day * 1440 + now.tod

\* ------------------------------------------------------- check-in records
\* The default passed to data.get(key, {...}) in handle_checkin.
DefaultRecord(user_id, group_id, today) ==
    [user_id |-> user_id, group_id |-> group_id, first_date |-> today,
     last_date |-> EmptyStr, total_days |-> 0, continuous_days |-> 0,
     history |-> << >>]

\* The streak computed by handle_checkin: one more than the stored streak
\* when the last check-in was yesterday, 1 otherwise.
\* The streak of handle_checkin without the reset after a gap.
ContinuousDaysNoReset(record, yesterday) == record.continuous_days + 1

ContinuousDays(record, yesterday) ==
    IF record.last_date = yesterday THEN record.continuous_days + 1
    ELSE IF record.last_date # EmptyStr THEN 1
    ELSE 1

\* The update of handle_checkin with the history started afresh.
NewRecordFreshHistory(record, today, now_time, period, yesterday) ==
    [record EXCEPT
        !.last_date = today,
        !.total_days = record.total_days + 1,
        !.continuous_days = ContinuousDays(record, yesterday),
        !.history = <<[date |-> today, time |-> now_time,
                       period |-> period]>>]

\* The update of handle_checkin with total_days left as it was.
NewRecordSameTotal(record, today, now_time, period, yesterday) ==
    [record EXCEPT
        !.last_date = today,
        !.continuous_days = ContinuousDays(record, yesterday),
        !.history = Append(record.history,
                           [date |-> today, time |-> now_time,
                            period |-> period])]

\* {**record, "last_date": ..., "total_days": ..., ...}
NewRecord(record, today, now_time, period, yesterday) ==
    [record EXCEPT
        !.last_date = today,
        !.total_days = record.total_days + 1,
        !.continuous_days = ContinuousDays(record, yesterday),
        !.history = Append(record.history,
                           [date |-> today, time |-> now_time,
                            period |-> period])]

\* ------------------------------------------------------------- almanac
\* What the GET of the almanac page can produce: an exception (timeout,
\* connection error, non-2xx status), a page holding both markers, or a page
\* without them.
FetchOutcomes == {"error", "marked", "unmarked"}

\* Cache lifetime of _get_horoscope in minutes (timedelta(hours=6)).
CacheMinutes == 360

\* The cache test at the top of _get_horoscope.
CacheValid(cache, ctime, now) ==
    /\ cache # "None"
    /\ ctime # << >>
    /\ AbsMinutes(now) - ctime[1] < CacheMinutes

\* The text _get_horoscope caches for a page that was fetched.
ParsePage(fetch) ==
    IF fetch = "marked" THEN "page_slice" ELSE "default_almanac"

\* _get_horoscope at time `now` with outcome `fetch` of the GET: the string
\* returned and the cache fields afterwards.
GetHoroscope(cache, ctime, now, fetch) ==
    IF CacheValid(cache, ctime, now)
    THEN [ret |-> cache, cache |-> cache, ctime |-> ctime, fetched |-> FALSE]
    ELSE IF fetch = "error"
    THEN [ret |-> "fetch_failed", cache |-> cache, ctime |-> ctime,
          fetched |-> TRUE]
    ELSE LET text == ParsePage(fetch)
         IN [ret |-> text, cache |-> text, ctime |-> <<AbsMinutes(now)>>,
             fetched |-> TRUE]

\* ------------------------------------------------------------- messages
\* A message is kept as its template (kind) and the values substituted into
\* it; the random closing phrase appended by _send_checkin_response carries
\* no state and is left out of the text.
BlackoutMsg(group_id) ==
    [group_id |-> group_id, kind |-> "blackout", days |-> 0,
     continuous_days |-> 0, horoscope |-> ""]

AlreadyMsg(group_id) ==
    [group_id |-> group_id, kind |-> "already", days |-> 0,
     continuous_days |-> 0, horoscope |-> ""]

\* The text built by _send_checkin_response.
ResponseMsg(group_id, record, period, horoscope) ==
    IF period = "morning"
    THEN [group_id |-> group_id, kind |-> "success_morning",
          days |-> record.total_days,
          continuous_days |-> record.continuous_days,
          horoscope |-> horoscope]
    ELSE IF period = "afternoon"
    THEN [group_id |-> group_id, kind |-> "success_afternoon",
          days |-> record.total_days,
          continuous_days |-> record.continuous_days,
          horoscope |-> ""]
    ELSE [group_id |-> group_id, kind |-> "invalid_period", days |-> 0,
          continuous_days |-> 0, horoscope |-> ""]

\* -------------------------------------------------------------- storage
\* _load_checkin_data that returns an empty document whatever the file
\* holds.
LoadCheckinDataEmpty(doc) == EmptyDict

\* _load_checkin_data: the document read from checkin_data.json.
LoadCheckinData(doc) == doc

\* _save_checkin_data that keeps, key by key, the record with more
\* check-ins of the file and the data.
SaveCheckinDataMerged(doc, data) ==
    [k \in DOMAIN doc \cup DOMAIN data |->
        IF k \notin DOMAIN data THEN doc[k]
        ELSE IF k \notin DOMAIN doc THEN data[k]
        ELSE IF doc[k].total_days > data[k].total_days THEN doc[k]
        ELSE data[k]]

\* _save_checkin_data that leaves the file as it was.
SaveCheckinDataDropped(doc, data) == doc

\* _save_checkin_data: the file content after writing `data` over `doc`.
SaveCheckinData(doc, data) == data

\* --------------------------------------------------------- JSON documents
\* The documents of the data directory that the model follows.
CheckinFile == "checkin_data.json"

BlacklistFile == "blacklist.json"

WhitelistFile == "whitelist.json"

Files == {CheckinFile, BlacklistFile, WhitelistFile}

\* required_files of _ensure_data_dir: what a document holds when created.
DefaultContent(f) ==
    CASE f = CheckinFile -> EmptyDict
      [] f = BlacklistFile -> [users |-> << >>, words |-> << >>]
      [] f = WhitelistFile -> [users |-> << >>]

\* Value of the digit character c.
DigitValue(c) == CHOOSE i \in 0..9 : DigitChar[i + 1] = c

\* json.load of a number literal that stops after the first digit.
ParseNumberFirstDigit(s) == DigitValue(s[1])

RECURSIVE ParseNumber(_)
\* json.load of a number literal: the integer its digits spell.
ParseNumber(s) ==
    IF Len(s) = 1 THEN DigitValue(s[1])
    ELSE ParseNumber(SubSeq(s, 1, Len(s) - 1)) * 10 + DigitValue(s[Len(s)])

\* json.dump of a check-in record: integers are written as decimal
\* literals, strings and the history entries (all strings) as they are.
DumpRecord(r) ==
    [user_id |-> IntStr(r.user_id), group_id |-> IntStr(r.group_id),
     first_date |-> r.first_date, last_date |-> r.last_date,
     total_days |-> IntStr(r.total_days),
     continuous_days |-> IntStr(r.continuous_days),
     history |-> r.history]

\* json.load of the text of a check-in record.
ParseRecord(t) ==
    [user_id |-> ParseNumber(t.user_id), group_id |-> ParseNumber(t.group_id),
     first_date |-> t.first_date, last_date |-> t.last_date,
     total_days |-> ParseNumber(t.total_days),
     continuous_days |-> ParseNumber(t.continuous_days),
     history |-> t.history]

\* json.dump(data, f, ensure_ascii=False, indent=4): the text written for
\* the value of document f.  The check-in document maps keys to records;
\* the membership documents hold a list of integers under "users" and
\* lists of strings elsewhere.
JsonDump(f, value) ==
    IF f = CheckinFile THEN [k \in DOMAIN value |-> DumpRecord(value[k])]
    ELSE [k \in DOMAIN value |->
            IF k = "users"
            THEN [i \in 1..Len(value[k]) |-> IntStr(value[k][i])]
            ELSE value[k]]

\* json.load(f) of a text that is valid JSON.
JsonLoad(f, text) ==
    IF f = CheckinFile THEN [k \in DOMAIN text |-> ParseRecord(text[k])]
    ELSE [k \in DOMAIN text |->
            IF k = "users"
            THEN [i \in 1..Len(text[k]) |-> ParseNumber(text[k][i])]
            ELSE text[k]]

\* A document on disk: absent, not valid JSON, or the text of a value.
\* `text` has a meaning only when state = "json".
Missing(f) == [state |-> "missing", text |-> JsonDump(f, DefaultContent(f))]

Corrupt(f) == [state |-> "corrupt", text |-> JsonDump(f, DefaultContent(f))]

Written(f, value) == [state |-> "json", text |-> JsonDump(f, value)]

\* open(file_path, "r") and json.load raise FileNotFoundError and
\* json.JSONDecodeError on these documents.
Unreadable(d, f) == d[f].state # "json"

\* _load_json(filename)
LoadJson(d, f) ==
    IF Unreadable(d, f) THEN EmptyDict ELSE JsonLoad(f, d[f].text)

\* _ensure_data_dir and _init_data_file: each absent document is created
\* with its default content.
EnsureDataDir(d) ==
    [f \in Files |->
        IF d[f].state = "missing" THEN Written(f, DefaultContent(f))
        ELSE d[f]]

\* _save_json(filename, data) and _save_checkin_data(data)
SaveJson(d, f, value) == [d EXCEPT ![f] = Written(f, value)]

\* The persistence operation that has just ended: which one, on which
\* document, the documents that were unreadable when it loaded them,
\* whether the operation raised, whether it wrote the document, the
\* check-in document it wrote, the messages it handed to the bot, and for
\* a membership operation the account it was called with and the users
\* of the list before it.
NoStored ==
    [op |-> "none", file |-> "", unreadable |-> {}, raised |-> FALSE,
     saved |-> FALSE, doc |-> EmptyDict, sent |-> << >>, user_id |-> 0,
     before |-> << >>]

\* ------------------------------------------------------ divination tables
\* DivinationHandler.constellations: the twelve registered signs, in the
\* order of the source (白羊座, 金牛座, 双子座, 巨蟹座, 狮子座, 处女座, 天秤座,
\* 天蝎座, 射手座, 摩羯座, 水瓶座, 双鱼座).
constellations ==
    {"aries", "taurus", "gemini", "cancer", "leo", "virgo", "libra",
     "scorpio", "sagittarius", "capricorn", "aquarius", "pisces"}

\* The tiers 大吉, 中吉, 小吉, 凶, 大凶, numbered in the order of the weights
\* dictionary, which is the order random.choices sees them in.
levels == 1..5

\* weights of _generate_luck, in hundredths: 0.15, 0.25, 0.35, 0.2, 0.05.
weights == <<15, 25, 35, 20, 5>>

\* adjustments of _generate_luck, in hundredths: 白羊座 {大吉 +0.05,
\* 凶 -0.03}, 摩羯座 {中吉 +0.1, 大凶 -0.05}, 双鱼座 {小吉 +0.07, 凶 +0.03}.
adjustments ==
    [c \in {"aries", "capricorn", "pisces"} |->
        CASE c = "aries" -> [t \in {1, 4} |-> IF t = 1 THEN 5 ELSE -3]
          [] c = "capricorn" -> [t \in {2, 5} |-> IF t = 2 THEN 10 ELSE -5]
          [] c = "pisces" -> [t \in {3, 4} |-> IF t = 3 THEN 7 ELSE 3]]

\* The adjustment step of _generate_luck that adds every delta of the sign
\* to every tier.
ApplyAdjustmentsToAll(w, adj) ==
    [t \in levels |->
        w[t] + (IF DOMAIN adj = {} THEN 0
                ELSE LET s == CHOOSE s \in DOMAIN adj : TRUE IN adj[s])]

\* for k, v in adjustments[constellation].items(): final_weights[k] += v
ApplyAdjustments(w, adj) ==
    [t \in levels |-> IF t \in DOMAIN adj THEN w[t] + adj[t] ELSE w[t]]

\* final_weights of _generate_luck before the division: a copy of weights
\* with the deltas of a sign that has an adjustment map added.
FinalWeights(constellation) ==
    IF constellation \in DOMAIN adjustments
    THEN ApplyAdjustments(weights, adjustments[constellation])
    ELSE weights

\* sum(final_weights.values())
Total(w) == w[1] + w[2] + w[3] + w[4] + w[5]

\* The division of _generate_luck by the sum of the base weights.
NormalizeByBase(w) == [num |-> w, den |-> Total(weights)]

\* final_weights[k] /= total, for every k.  A probability is kept as the
\* exact fraction num[t] / den; the rounding of the float division (below
\* 1e-15) is not modelled.
Normalize(w) == [num |-> w, den |-> Total(w)]

\* Sum of the first t numerators: itertools.accumulate of random.choices.
CumWeight(p, t) ==
    IF t = 0 THEN 0
    ELSE IF t = 1 THEN p.num[1]
    ELSE IF t = 2 THEN p.num[1] + p.num[2]
    ELSE IF t = 3 THEN p.num[1] + p.num[2] + p.num[3]
    ELSE IF t = 4 THEN p.num[1] + p.num[2] + p.num[3] + p.num[4]
    ELSE Total(p.num)

\* random.choices that picks among the tiers as if they were equally
\* likely.
ChoicesUniform(p, r) == 1 + ((r * 5) \div 100)

\* random.choices(levels, weights=probs, k=1)[0] when random() returns
\* r / 100: bisect(cum_weights, random() * total, 0, n - 1), the number of
\* cumulative weights among the first four that are <= the scaled value.
Choices(p, r) ==
    1 + Cardinality({t \in 1..4 :
                        CumWeight(p, t) * 100 <= r * CumWeight(p, 5)})

\* The values random() returns in the model, in hundredths.
RandomValues == {2, 15, 50, 74, 99}

\* self.lucky_data[level] holds three descriptions; random.choice picks
\* the one at the index drawn.
Details == 1..3

\* levels of _generate_local_horoscope, in hundredths: 0.15, 0.35, 0.3,
\* 0.15, 0.05.
LocalLevels == <<15, 35, 30, 15, 5>>

\* The signs local horoscopes are generated for in the model.
LocalSigns == {"aries", "libra"}

\* The "adjustments" entries constellations.json may hold for a sign: none,
\* a raise, a cut below the weight of the tier, and a raise above 1.
LocalAdjustments ==
    {[t \in {} |-> 0], [t \in {1} |-> 5], [t \in {5} |-> -10],
     [t \in {2} |-> 70]}

\* levels[level] = min(max(levels[level] + adj, 0), 1), for every listed
\* level.
LocalWeights(adj) ==
    [t \in levels |->
        IF t \in DOMAIN adj
        THEN LET v == LocalLevels[t] + adj[t]
                 lo == IF v > 0 THEN v ELSE 0
             IN  IF lo < 100 THEN lo ELSE 100
        ELSE LocalLevels[t]]

\* The handle_divination or _generate_local_horoscope call that has just
\* ended: its kind ("invalid", "drawn", "local"), arguments, the weights
\* before the division, the probabilities, the two random draws, the tier
\* and description drawn (0 when nothing was drawn), the history before the
\* call, the messages handed to the bot and whether the call raised.
NoDraw ==
    [kind |-> "none", user_id |-> 0, group_id |-> 0, constellation |-> "",
     adj |-> [t \in {} |-> 0], final_weights |-> weights,
     probs |-> Normalize(weights), r |-> 0, d |-> 0, level |-> 0,
     detail |-> 0, before |-> EmptyDict, sent |-> << >>, raised |-> FALSE]

\* ---------------------------------------------------------- admin config
\* config.master_qq, set by the deployment.
master_qq == 7

\* config.vip_users
vip_users == {1055411737}

\* The accounts that talk to the bot: the owner, three that can be named
\* delegates, and the VIP of the default configuration.
DelegateIds == {3, 12, 23}

Accounts == {master_qq} \cup DelegateIds \cup vip_users

\* The values secrets.token_hex(4) returns in the model.
Codes == {"0a1b2c3d", "4e5f6a7b"}

\* config.is_master(user_id)
IsMaster(user_id) == user_id = master_qq

\* config.is_agent(user_id)
IsAgent(a, user_id) == \E i \in 1..Len(a) : a[i] = user_id

\* config.is_admin(user_id)
IsAdmin(a, user_id) == IsMaster(user_id) \/ IsAgent(a, user_id)

\* config.is_vip(user_id)
IsVip(user_id) == user_id \in vip_users

\* The admin-surface call that has just ended: which one, who called, the
\* command or code it was given, the state before it, the messages
\* handed to the bot (each with its recipient, and the shutdown code its
\* text holds or ""), what it returned ("None", "True", "False"), whether
\* it raised, and for the shutdown calls the minute they were made in.
NoReply ==
    [op |-> "none", user_id |-> 0, cmd |-> [word |-> "", qq |-> -1],
     code |-> "",
     before |-> [agents |-> << >>, group_approve_mode |-> FALSE,
                 shutdown_codes |-> EmptyDict],
     sent |-> << >>, ret |-> "None", raised |-> FALSE, now |-> 0]

\* ----------------------------------------------------- astrology service
\* A horoscope before any has been made: where it came from ("online",
\* "local"), its lucky_level (a tier of `levels`) and which of the
\* descriptions of its tier it carries (0 for the text of the API).
NoResult == [source |-> "", level |-> 0, detail |-> 0]

\* f"{get_current_date()}_{constellation}", kept as its two parts.
CacheKey(day, constellation) == <<StrfDate(day), constellation>>

\* A get_daily_horoscope call that is not waiting on the network.
NoFetch == [waiting |-> FALSE, constellation |-> "", day |-> 0]

\* The get_daily_horoscope call that has just returned or raised: its
\* slot and argument, the day its cache key was built from, how the GET
\* ended ("none" when there was none), the two random draws of the local
\* generator, what was returned, whether it raised, and the first result
\* returned for its key before it (NoResult when it is the first).
NoAnswer ==
    [op |-> "none", p |-> 0, constellation |-> "", day |-> 0,
     fetch |-> "none", r |-> 0, d |-> 0, result |-> NoResult,
     raised |-> FALSE, earlier |-> NoResult]

\* ------------------------------------------- join requests and messages
\* The handle_request call that has just ended: who asked to join, the
\* approve mode and the two membership answers it read, how the automatic
\* review ended ("none" when it was not reached), the
\* set_group_add_request calls it made, the admins the request was
\* forwarded to and whether the call raised.
NoRequest ==
    [op |-> "none", user_id |-> 0, mode |-> FALSE, blacklisted |-> FALSE,
     whitelisted |-> FALSE, auto |-> "none", calls |-> << >>,
     forwarded |-> << >>, raised |-> FALSE]

\* The content blocked_words.json is created with: the list [].
DefaultBlockedWords == [shape |-> "list", words |-> {}]

\* A blocked_words.json an operator has written by hand: a dictionary
\* with one entry under "words".
OperatorBlockedWords == [shape |-> "dict", words |-> {"spam"}]

\* The handle_message call that has just ended: the sender, the command
\* its text holds, the words of its text, permission_mode, the stage that
\* handled it ("developer", "blocked", "permission", or "none"), the
\* delegates and the permission requests before the call, the key of the
\* request it stored (<< >> when none), the messages handed to the bot
\* and whether the call raised.
NoHandled ==
    [op |-> "none", user_id |-> 0, cmd |-> [word |-> "", qq |-> -1],
     text |-> {}, permission_mode |-> FALSE, stage |-> "none",
     before |-> [agents |-> << >>, permission_requests |-> EmptyDict],
     request_id |-> << >>, sent |-> << >>, raised |-> FALSE]

\* ------------------------------------------------- handle_checkin, whole
\* The night test of handle_checkin without the test.
IsBlackoutNever(period) == FALSE

\* period == "night"
IsBlackout(period) == period = "night"

\* record.get("last_date") == today without the test.
AlreadyCheckedInNever(record, today) == FALSE

\* record.get("last_date") == today
AlreadyCheckedIn(record, today) == record.last_date = today

\* handle_checkin(bot, user_id, group_id) run from entry to return at one
\* clock reading.  fetch is the outcome of the almanac GET should it be
\* made, sendOk whether bot.send_group_msg returns (TRUE) or raises.
HandleCheckin(user_id, group_id, fetch, sendOk) ==
    LET period == GetTimePeriod(clock.tod)
        today == StrfDate(clock.day)
        now_time == StrfTime(clock.tod)
        key == Key(user_id, group_id)
        data == LoadCheckinData(file)
        record == DictGet(data, key, DefaultRecord(user_id, group_id, today))
        yesterday == StrfDate(clock.day - 1)
        new_record == NewRecord(record, today, now_time, period, yesterday)
        h == GetHoroscope(horoscope_cache, cache_time, clock, fetch)
        done(kind, msgs) ==
            last' = [user_id |-> user_id, group_id |-> group_id,
                     now |-> clock, kind |-> kind, before |-> file,
                     sent |-> msgs, send_ok |-> sendOk]
    IN  /\ IF IsBlackout(period)
           THEN /\ done("blackout", <<BlackoutMsg(group_id)>>)
                /\ UNCHANGED <<file, horoscope_cache, cache_time>>
           ELSE IF AlreadyCheckedIn(record, today)
           THEN /\ done("already", <<AlreadyMsg(group_id)>>)
                /\ UNCHANGED <<file, horoscope_cache, cache_time>>
           ELSE /\ file' = SaveCheckinData(file,
                                           DictSet(data, key, new_record))
                /\ IF period = "morning"
                   THEN /\ horoscope_cache' = h.cache
                        /\ cache_time' = h.ctime
                        /\ done("success",
                                <<ResponseMsg(group_id, new_record, period,
                                              h.ret)>>)
                   ELSE /\ UNCHANGED <<horoscope_cache, cache_time>>
                        /\ done("success",
                                <<ResponseMsg(group_id, new_record, period,
                                              "")>>)
        /\ UNCHANGED <<clock, pc, loc, order, runs>>
        /\ UNCHANGED extVars

\* Invocations of handle_checkin that can be in flight together.
Procs == {1, 2}

\* Locals of an invocation that has not started.
NoLocals ==
    [user_id |-> 0, group_id |-> 0, now |-> [day |-> 0, tod |-> 0],
     period |-> "", today |-> EmptyStr, now_time |-> EmptyStr,
     key |-> EmptyStr, loaded |-> EmptyDict, data |-> EmptyDict,
     new_record |-> DefaultRecord(0, 0, EmptyStr), horoscope |-> ""]

\* Value of `last` while no invocation has finished at the present instant.
NoLast ==
    [user_id |-> 0, group_id |-> 0, now |-> [day |-> 0, tod |-> 0],
     kind |-> "none", before |-> EmptyDict, sent |-> << >>,
     send_ok |-> TRUE]

\* Time passes: the clock moves to a later sampled instant.  The sampled
\* instants are hours apart and an invocation lasts seconds (the GET times
\* out after 10 s), so the clock moves between invocations, not within one.
Tick ==
    /\ \A p \in Procs : pc[p] = "idle"
    /\ \E d \in 1..MaxDay, t \in TimePoints :
          /\ AbsMinutes([day |-> d, tod |-> t]) > AbsMinutes(clock)
          /\ clock' = [day |-> d, tod |-> t]
    /\ last' = NoLast
    /\ order' = << >>
    /\ UNCHANGED <<file, horoscope_cache, cache_time, pc, loc, runs>>
    /\ UNCHANGED extVars

\* CheckinHandler.__init__ on an empty data directory.
CheckinInit ==
    /\ clock \in [day : {1}, tod : TimePoints]
    /\ file = EmptyDict
    /\ horoscope_cache = "None"
    /\ cache_time = << >>
    /\ last = NoLast
    /\ pc = [p \in Procs |-> "idle"]
    /\ loc = [p \in Procs |-> NoLocals]
    /\ order = << >>
    /\ runs = 0

\* ConfigManager.__init__ on an empty data directory: every document is
\* created with its default content and loaded.
StoreInit ==
    /\ disk = [f \in Files |-> Written(f, DefaultContent(f))]
    /\ blacklist = DefaultContent(BlacklistFile)
    /\ whitelist = DefaultContent(WhitelistFile)
    /\ stored = NoStored

\* DivinationHandler.__init__
DivInit ==
    /\ history = EmptyDict
    /\ drawn = NoDraw

\* DeveloperHandler.__init__ under the default configuration.
DevInit ==
    /\ agents = << >>
    /\ group_approve_mode = FALSE
    /\ shutdown_codes = EmptyDict
    /\ reply = NoReply
    /\ issued = EmptyDict

\* AstrologyService.__init__
SvcInit ==
    /\ service_cache = EmptyDict
    /\ fetching = [p \in Procs |-> NoFetch]
    /\ answered = NoAnswer
    /\ first_result = EmptyDict

\* GroupManageHandler.__init__ and the rest of ConfigManager.__init__ on
\* an empty data directory: blocked_words.json is created holding [].
GateInit ==
    /\ request = NoRequest
    /\ blocked_words = DefaultBlockedWords
    /\ permission_requests = EmptyDict
    /\ handled = NoHandled

Init ==
    CheckinInit /\ StoreInit /\ DivInit /\ DevInit /\ SvcInit /\ GateInit

Checkin ==
    \E s \in Subjects, fetch \in FetchOutcomes, sendOk \in BOOLEAN :
        HandleCheckin(s[1], s[2], fetch, sendOk)

Next == Tick \/ Checkin

Spec == Init /\ [][Next]_vars

\* ------------------------------------------- handle_checkin, step by step
\* Each action below runs handle_checkin from one await to the next.  An
\* invocation that returns leaves its outcome in `last` and its load and
\* save in `order` until the same slot starts again or the clock moves.

\* The value of `last` for the invocation with locals l that returns
\* after one call of bot.send_group_msg.
Outcome(l, kind, before, msg, sendOk) ==
    [user_id |-> l.user_id, group_id |-> l.group_id, now |-> l.now,
     kind |-> kind, before |-> before, sent |-> <<msg>>, send_ok |-> sendOk]

\* Lines 78-87: entry up to `await bot.send_group_msg` (night) or
\* `await self._load_checkin_data()`.  A new invocation takes the lowest
\* free slot (the slots are interchangeable).
Begin(p, user_id, group_id) ==
    /\ pc[p] = "idle"
    /\ \A q \in Procs : q < p => pc[q] # "idle"
    /\ runs < MaxRuns
    /\ runs' = runs + 1
    /\ LET period == GetTimePeriod(clock.tod)
           l == [NoLocals EXCEPT !.user_id = user_id, !.group_id = group_id,
                                 !.now = clock, !.period = period]
       IN IF IsBlackout(period)
          THEN /\ loc' = [loc EXCEPT ![p] = l]
               /\ pc' = [pc EXCEPT ![p] = "send_blackout"]
          ELSE /\ loc' = [loc EXCEPT ![p] =
                             [l EXCEPT !.today = StrfDate(clock.day),
                                       !.now_time = StrfTime(clock.tod),
                                       !.key = Key(user_id, group_id)]]
               /\ pc' = [pc EXCEPT ![p] = "load"]
    /\ order' = SelectSeq(order, LAMBDA e : e.p # p)
    /\ UNCHANGED <<clock, file, horoscope_cache, cache_time, last>>
    /\ UNCHANGED extVars

\* Line 81: the blackout reply, then return.
SendBlackout(p, sendOk) ==
    /\ pc[p] = "send_blackout"
    /\ last' = Outcome(loc[p], "blackout", file,
                       BlackoutMsg(loc[p].group_id), sendOk)
    /\ loc' = [loc EXCEPT ![p] = NoLocals]
    /\ pc' = [pc EXCEPT ![p] = "idle"]
    /\ UNCHANGED <<clock, file, horoscope_cache, cache_time, order, runs>>
    /\ UNCHANGED extVars

\* Lines 90-129: the load returns; the record is looked up, tested and, when
\* the subject has not checked in today, updated in the loaded document.
Load(p) ==
    /\ pc[p] = "load"
    /\ LET l == loc[p]
           data == LoadCheckinData(file)
           record == DictGet(data, l.key,
                             DefaultRecord(l.user_id, l.group_id, l.today))
           yesterday == StrfDate(clock.day - 1)
           new_record == NewRecord(record, l.today, l.now_time, l.period,
                                   yesterday)
       IN IF AlreadyCheckedIn(record, l.today)
          THEN /\ loc' = [loc EXCEPT ![p].loaded = data, ![p].data = data]
               /\ pc' = [pc EXCEPT ![p] = "send_already"]
          ELSE /\ loc' = [loc EXCEPT ![p].loaded = data,
                                     ![p].data = DictSet(data, l.key,
                                                         new_record),
                                     ![p].new_record = new_record]
               /\ pc' = [pc EXCEPT ![p] = "save"]
    /\ order' = Append(order,
                       [ev |-> "load", p |-> p, key |-> loc[p].key,
                        rec |-> DictGet(file, loc[p].key,
                                        DefaultRecord(loc[p].user_id,
                                                      loc[p].group_id,
                                                      loc[p].today)),
                        doc |-> LoadCheckinData(file)])
    /\ UNCHANGED <<clock, file, horoscope_cache, cache_time, last, runs>>
    /\ UNCHANGED extVars

\* Lines 103-107: the already-checked-in reply, then return.
SendAlready(p, sendOk) ==
    /\ pc[p] = "send_already"
    /\ last' = Outcome(loc[p], "already", loc[p].loaded,
                       AlreadyMsg(loc[p].group_id), sendOk)
    /\ loc' = [loc EXCEPT ![p] = NoLocals]
    /\ pc' = [pc EXCEPT ![p] = "idle"]
    /\ UNCHANGED <<clock, file, horoscope_cache, cache_time, order, runs>>
    /\ UNCHANGED extVars

\* Line 130: the document is written; _send_checkin_response is entered.
Save(p) ==
    /\ pc[p] = "save"
    /\ file' = SaveCheckinData(file, loc[p].data)
    /\ pc' = [pc EXCEPT ![p] = IF loc[p].period = "morning"
                               THEN "horoscope" ELSE "send_response"]
    /\ order' = Append(order,
                       [ev |-> "save", p |-> p, key |-> loc[p].key,
                        rec |-> loc[p].new_record, doc |-> loc[p].data])
    /\ UNCHANGED <<clock, horoscope_cache, cache_time, last, loc, runs>>
    /\ UNCHANGED extVars

\* Lines 33-40: _get_horoscope returns the cached text or starts the GET.
Horoscope(p) ==
    /\ pc[p] = "horoscope"
    /\ IF CacheValid(horoscope_cache, cache_time, clock)
       THEN /\ loc' = [loc EXCEPT ![p].horoscope = horoscope_cache]
            /\ pc' = [pc EXCEPT ![p] = "send_response"]
       ELSE /\ pc' = [pc EXCEPT ![p] = "fetching"]
            /\ UNCHANGED loc
    /\ UNCHANGED <<clock, file, horoscope_cache, cache_time, last, order,
                   runs>>
    /\ UNCHANGED extVars

\* Lines 40-57: the GET returns or raises.
FetchReturn(p, fetch) ==
    /\ pc[p] = "fetching"
    /\ IF fetch = "error"
       THEN /\ loc' = [loc EXCEPT ![p].horoscope = "fetch_failed"]
            /\ UNCHANGED <<horoscope_cache, cache_time>>
       ELSE /\ horoscope_cache' = ParsePage(fetch)
            /\ cache_time' = <<AbsMinutes(clock)>>
            /\ loc' = [loc EXCEPT ![p].horoscope = ParsePage(fetch)]
    /\ pc' = [pc EXCEPT ![p] = "send_response"]
    /\ UNCHANGED <<clock, file, last, order, runs>>
    /\ UNCHANGED extVars

\* Line 164: the success reply, then return.
SendResponse(p, sendOk) ==
    /\ pc[p] = "send_response"
    /\ last' = Outcome(loc[p], "success", loc[p].loaded,
                       ResponseMsg(loc[p].group_id, loc[p].new_record,
                                   loc[p].period, loc[p].horoscope), sendOk)
    /\ loc' = [loc EXCEPT ![p] = NoLocals]
    /\ pc' = [pc EXCEPT ![p] = "idle"]
    /\ UNCHANGED <<clock, file, horoscope_cache, cache_time, order, runs>>
    /\ UNCHANGED extVars

\* The steps after entry.
Continue(p) ==
    \/ \E sendOk \in BOOLEAN : SendBlackout(p, sendOk)
    \/ Load(p)
    \/ \E sendOk \in BOOLEAN : SendAlready(p, sendOk)
    \/ Save(p)
    \/ Horoscope(p)
    \/ \E fetch \in FetchOutcomes : FetchReturn(p, fetch)
    \/ \E sendOk \in BOOLEAN : SendResponse(p, sendOk)

\* Entry of an invocation while others may be in flight.
BeginAny == \E p \in Procs, s \in Subjects : Begin(p, s[1], s[2])

\* Entry of an invocation once every other one has returned.
BeginAlone ==
    \E p \in Procs, s \in Subjects :
        /\ \A q \in Procs : pc[q] = "idle"
        /\ Begin(p, s[1], s[2])

Step == \E p \in Procs : Continue(p)

\* Invocations interleave at every await.
NextAsync == Tick \/ BeginAny \/ Step

SpecAsync == Init /\ [][NextAsync]_vars

\* One invocation at a time, observed at every await.
NextSerial == Tick \/ BeginAlone \/ Step

SpecSerial == Init /\ [][NextSerial]_vars

\* ---------------------------------------------------------------- claims
\* The subject of the invocation that has just returned, and its records
\* before and after.
LastKey == Key(last.user_id, last.group_id)
LastToday == StrfDate(last.now.day)
LastYesterday == StrfDate(last.now.day - 1)
LastPeriod == GetTimePeriod(last.now.tod)
Returned == last.kind # "none"
HadRecord == LastKey \in DOMAIN last.before
OldRecord == last.before[LastKey]
CurRecord == file[LastKey]

\* The day number whose rendering is the date string d.
DayOf(d) == CHOOSE n \in 0..(MaxDay + 1) : StrfDate(n) = d

\* C1 (as stated): a call for a subject whose stored last_date is today's
\* date is answered with the already-checked-in reply and leaves the
\* document unchanged.
C1_AsStated ==
    (Returned /\ HadRecord /\ OldRecord.last_date = LastToday)
        => /\ last.kind = "already"
           /\ last.sent = <<AlreadyMsg(last.group_id)>>
           /\ file = last.before

\* C1 (amended): a call for a subject whose stored last_date is today's date
\* leaves the document unchanged; it is answered with the
\* already-checked-in reply when the time is outside the night bucket and
\* with the blackout reply when it is inside.
C1_Idempotent ==
    (Returned /\ HadRecord /\ OldRecord.last_date = LastToday)
        => /\ file = last.before
           /\ LastPeriod # "night" =>
                 /\ last.kind = "already"
                 /\ last.sent = <<AlreadyMsg(last.group_id)>>
           /\ LastPeriod = "night" =>
                 /\ last.kind = "blackout"
                 /\ last.sent = <<BlackoutMsg(last.group_id)>>

\* A second call on the day of a check-in, outside the night bucket, has
\* just been turned away.
C1_Witness ==
    /\ last.kind = "already"
    /\ HadRecord
    /\ OldRecord.last_date = LastToday
    /\ LastPeriod = "afternoon"

\* C2: on a successful check-in the streak is the stored streak plus one
\* when the stored last_date is yesterday, 1 when it is two or more days
\* ago, and a subject without a record gets streak 1 and total 1.
C2_Streak ==
    last.kind = "success" =>
        /\ (HadRecord /\ OldRecord.last_date = LastYesterday)
              => CurRecord.continuous_days = OldRecord.continuous_days + 1
        /\ (HadRecord /\ DayOf(OldRecord.last_date) + 2 <= last.now.day)
              => CurRecord.continuous_days = 1
        /\ ~HadRecord
              => /\ CurRecord.continuous_days = 1
                 /\ CurRecord.total_days = 1

\* A check-in two days after the previous one has just reset the streak.
C2_Witness ==
    /\ last.kind = "success"
    /\ HadRecord
    /\ DayOf(OldRecord.last_date) + 2 <= last.now.day
    /\ CurRecord.continuous_days = 1
    /\ CurRecord.total_days = 2

\* C3: a call made while the time is in the night bucket is answered with
\* the blackout reply and leaves the document unchanged, whatever the
\* subject's record.
C3_Blackout ==
    (Returned /\ LastPeriod = "night")
        => /\ last.kind = "blackout"
           /\ last.sent = <<BlackoutMsg(last.group_id)>>
           /\ file = last.before

\* A night call by a subject that checked in earlier the same day has just
\* been turned away.
C3_Witness ==
    /\ last.kind = "blackout"
    /\ LastPeriod = "night"
    /\ HadRecord
    /\ OldRecord.last_date = LastToday

\* The record a successful check-in starts from: the stored one, or the
\* fresh one of a subject that has none.
StartRecord ==
    IF HadRecord THEN OldRecord
    ELSE [user_id |-> last.user_id, group_id |-> last.group_id,
          first_date |-> LastToday, last_date |-> EmptyStr, total_days |-> 0,
          continuous_days |-> 0, history |-> << >>]

\* C4: a successful check-in adds 1 to total_days, sets last_date to today,
\* appends exactly one entry {today, now, bucket} at the end of history and
\* leaves first_date and the earlier entries as they were.
C4_Effect ==
    last.kind = "success" =>
        /\ CurRecord.total_days = StartRecord.total_days + 1
        /\ CurRecord.last_date = LastToday
        /\ Len(CurRecord.history) = Len(StartRecord.history) + 1
        /\ CurRecord.history[Len(CurRecord.history)] =
               [date |-> LastToday, time |-> StrfTime(last.now.tod),
                period |-> LastPeriod]
        /\ SubSeq(CurRecord.history, 1, Len(StartRecord.history)) =
               StartRecord.history
        /\ CurRecord.first_date = StartRecord.first_date
        /\ CurRecord.user_id = last.user_id
        /\ CurRecord.group_id = last.group_id

\* A subject with two earlier entries has just checked in again.
C4_Witness ==
    /\ last.kind = "success"
    /\ HadRecord
    /\ Len(OldRecord.history) = 2
    /\ Len(CurRecord.history) = 3
    /\ CurRecord.first_date # LastToday

\* C5: every persisted record has continuous_days <= total_days and as
\* many history entries as total_days.
C5_RecordInvariant ==
    \A k \in DOMAIN file :
        /\ file[k].continuous_days <= file[k].total_days
        /\ Len(file[k].history) = file[k].total_days

\* A record whose streak is shorter than its total has been persisted.
C5_Witness ==
    \E k \in DOMAIN file :
        /\ file[k].total_days = 2
        /\ file[k].continuous_days = 1

\* The dates of the entries of a history.
HistoryDates(h) == {h[i].date : i \in 1..Len(h)}

\* C6: with a clock that never moves backwards no history holds two
\* entries of the same date, so total_days is the number of distinct dates
\* on which the subject checked in.
C6_OncePerDay ==
    \A k \in DOMAIN file :
        /\ \A i, j \in 1..Len(file[k].history) :
              file[k].history[i].date = file[k].history[j].date => i = j
        /\ file[k].total_days = Cardinality(HistoryDates(file[k].history))

\* A subject with check-ins on two days has just been turned away on the
\* second of them.
C6_Witness ==
    /\ last.kind = "already"
    /\ CurRecord.total_days = 2
    /\ Cardinality(HistoryDates(CurRecord.history)) = 2

\* C7: distinct subjects have distinct keys; a call for one subject leaves
\* every other subject's record as it was (present or absent); a record
\* that exists stays and its total_days does not decrease.
C7_Isolation ==
    /\ \A s, t \in Subjects : s # t => Key(s[1], s[2]) # Key(t[1], t[2])
    /\ Returned =>
          \A t \in Subjects :
              t # <<last.user_id, last.group_id>> =>
                  LET k == Key(t[1], t[2])
                  IN /\ (k \in DOMAIN file) <=> (k \in DOMAIN last.before)
                     /\ k \in DOMAIN file => file[k] = last.before[k]
    /\ \A k \in DOMAIN last.before :
          /\ k \in DOMAIN file
          /\ file[k].total_days >= last.before[k].total_days

\* A subject has just checked in while the other subject's record existed.
C7_Witness ==
    /\ last.kind = "success"
    /\ \E t \in Subjects :
          /\ t # <<last.user_id, last.group_id>>
          /\ Key(t[1], t[2]) \in DOMAIN last.before
          /\ last.before[Key(t[1], t[2])].total_days = 2

\* The bucket of a time of day by the fixed boundaries 05:00, 12:00, 20:00.
InMorning(tod) == 300 <= tod /\ tod < 720
InAfternoon(tod) == 720 <= tod /\ tod < 1200
InNight(tod) == tod >= 1200 \/ tod < 300

\* Every minute of the day is classified by these boundaries.
BucketsPartition ==
    \A tod \in 0..1439 :
        /\ GetTimePeriod(tod) = "morning" <=> InMorning(tod)
        /\ GetTimePeriod(tod) = "afternoon" <=> InAfternoon(tod)
        /\ GetTimePeriod(tod) = "night" <=> InNight(tod)

\* C8: every time of day is in exactly one of morning [05:00,12:00),
\* afternoon [12:00,20:00), night [20:00,05:00); a check-in succeeds only in
\* morning or afternoon and no stored history entry has period night.
C8_Buckets ==
    /\ BucketsPartition
    /\ last.kind = "success" => InMorning(last.now.tod) \/ InAfternoon(last.now.tod)
    /\ \A k \in DOMAIN file :
          \A i \in 1..Len(file[k].history) :
              file[k].history[i].period \in {"morning", "afternoon"}

\* Entries of both periods are stored and a call at 04:59 has just been
\* turned away.
C8_Witness ==
    /\ last.kind = "blackout"
    /\ last.now.tod = 299
    /\ \E k \in DOMAIN file :
          {file[k].history[i].period : i \in 1..Len(file[k].history)}
              = {"morning", "afternoon"}

\* Positions of handle_checkin after the await of _save_checkin_data.
PastSave == {"horoscope", "fetching", "send_response"}

\* C9: the updated document is in storage before the almanac fetch and
\* before the success reply is sent; when a success reply has been handed to
\* the bot the stored record is the one it reports, whether or not the
\* fetch or the send failed.
C9_PersistFirst ==
    /\ \A p \in Procs :
          pc[p] \in PastSave =>
              /\ loc[p].key \in DOMAIN file
              /\ file[loc[p].key] = loc[p].new_record
    /\ last.kind = "success" =>
          /\ LastKey \in DOMAIN file
          /\ CurRecord.last_date = LastToday
          /\ CurRecord.total_days = last.sent[1].days
          /\ CurRecord.continuous_days = last.sent[1].continuous_days
          /\ CurRecord.total_days = StartRecord.total_days + 1

\* A morning check-in has returned after the almanac fetch failed and the
\* send raised, and its record is stored.
C9_Witness ==
    /\ last.kind = "success"
    /\ ~last.send_ok
    /\ last.sent[1].horoscope = "fetch_failed"
    /\ LastKey \in DOMAIN file
    /\ CurRecord.last_date = LastToday

\* Two invocations for different subjects loaded the document (the same
\* content, nothing having been saved between the loads) before either
\* saved it: order[i], order[j] are the loads, order[k] the first save and
\* order[l] the second.
Raced(i, j, k, l) ==
    /\ i < k /\ j < k /\ k < l
    /\ order[i].ev = "load" /\ order[j].ev = "load"
    /\ order[k].ev = "save" /\ order[l].ev = "save"
    /\ order[i].p = order[k].p
    /\ order[j].p = order[l].p
    /\ order[i].p # order[j].p
    /\ order[i].key # order[j].key
    /\ order[i].doc = order[j].doc

\* C10: when two invocations for different subjects both load the document
\* before either saves, the later save replaces the earlier one and the
\* first subject's check-in is not in the stored document.
C10_LostUpdate ==
    \A i, j, k, l \in 1..Len(order) :
        Raced(i, j, k, l) =>
            /\ file = order[l].doc
            /\ file[order[l].key] = order[l].rec
            /\ DictGet(file, order[k].key, order[i].rec) = order[i].rec
            /\ DictGet(file, order[k].key, order[i].rec) # order[k].rec

\* The race has happened for a first subject that had a stored record.
C10_Witness ==
    \E i, j, k, l \in 1..Len(order) :
        /\ Raced(i, j, k, l)
        /\ order[i].rec.total_days = 1
        /\ order[k].rec.total_days = 2
        /\ file[order[k].key].total_days = 1

\* ------------------------------------------------ persistence operations
\* In the specification below checkin_data.json is followed as the text on
\* disk (`disk`), which can be absent or damaged; `file` is not used.

\* The accounts the membership operations are called with.
ListUsers == {3, 12}

\* list.remove(x): the list without its first x.
RemoveFirst(s, x) ==
    LET i == CHOOSE i \in 1..Len(s) :
                 s[i] = x /\ \A j \in 1..(i - 1) : s[j] # x
    IN  SubSeq(s, 1, i - 1) \o SubSeq(s, i + 1, Len(s))

\* x in s that looks at the head of the list alone.
InListHead(s, x) == Len(s) > 0 /\ s[1] = x

\* x in s, for a list s
InList(s, x) == \E i \in 1..Len(s) : s[i] = x

\* self.blacklist["users"] and self.whitelist["users"] raise KeyError on a
\* value without that key.
HasUsers(l) == "users" \in DOMAIN l

\* The "users" of a membership list, or nothing when it has no such key.
UsersOf(l) == IF HasUsers(l) THEN l.users ELSE << >>

\* ConfigManager.__init__ and CheckinHandler.__init__ at a restart of the
\* bot: _ensure_data_dir and _init_data_file, then _load_data_files.
Startup ==
    LET d == EnsureDataDir(disk)
    IN  /\ disk' = d
        /\ blacklist' = LoadJson(d, BlacklistFile)
        /\ whitelist' = LoadJson(d, WhitelistFile)
        /\ stored' = [NoStored EXCEPT
                         !.op = "_load_data_files",
                         !.unreadable = {f \in Files : Unreadable(d, f)}]
        /\ UNCHANGED <<checkinVars, divVars, devVars, moreVars>>

\* add_to_blacklist(user_id)
AddToBlacklist(user_id) ==
    /\ IF ~HasUsers(blacklist)
       THEN /\ stored' = [NoStored EXCEPT !.op = "add_to_blacklist",
                             !.user_id = user_id,
                             !.before = UsersOf(blacklist),
                             !.file = BlacklistFile, !.raised = TRUE]
            /\ UNCHANGED <<disk, blacklist>>
       ELSE IF ~InList(blacklist.users, user_id)
       THEN LET l == [blacklist EXCEPT !.users = Append(@, user_id)]
            IN  /\ blacklist' = l
                /\ disk' = SaveJson(disk, BlacklistFile, l)
                /\ stored' = [NoStored EXCEPT !.op = "add_to_blacklist",
                                 !.user_id = user_id,
                                 !.before = UsersOf(blacklist),
                                 !.file = BlacklistFile, !.saved = TRUE]
       ELSE /\ stored' = [NoStored EXCEPT !.op = "add_to_blacklist",
                             !.user_id = user_id,
                             !.before = UsersOf(blacklist),
                             !.file = BlacklistFile]
            /\ UNCHANGED <<disk, blacklist>>
    /\ UNCHANGED <<whitelist, checkinVars, divVars, devVars, moreVars>>

\* remove_from_blacklist(user_id)
RemoveFromBlacklist(user_id) ==
    /\ IF ~HasUsers(blacklist)
       THEN /\ stored' = [NoStored EXCEPT !.op = "remove_from_blacklist",
                             !.user_id = user_id,
                             !.before = UsersOf(blacklist),
                             !.file = BlacklistFile, !.raised = TRUE]
            /\ UNCHANGED <<disk, blacklist>>
       ELSE IF InList(blacklist.users, user_id)
       THEN LET l == [blacklist EXCEPT !.users = RemoveFirst(@, user_id)]
            IN  /\ blacklist' = l
                /\ disk' = SaveJson(disk, BlacklistFile, l)
                /\ stored' = [NoStored EXCEPT !.op = "remove_from_blacklist",
                                 !.user_id = user_id,
                                 !.before = UsersOf(blacklist),
                                 !.file = BlacklistFile, !.saved = TRUE]
       ELSE /\ stored' = [NoStored EXCEPT !.op = "remove_from_blacklist",
                             !.user_id = user_id,
                             !.before = UsersOf(blacklist),
                             !.file = BlacklistFile]
            /\ UNCHANGED <<disk, blacklist>>
    /\ UNCHANGED <<whitelist, checkinVars, divVars, devVars, moreVars>>

\* add_to_whitelist(user_id)
AddToWhitelist(user_id) ==
    /\ IF ~HasUsers(whitelist)
       THEN /\ stored' = [NoStored EXCEPT !.op = "add_to_whitelist",
                             !.user_id = user_id,
                             !.before = UsersOf(whitelist),
                             !.file = WhitelistFile, !.raised = TRUE]
            /\ UNCHANGED <<disk, whitelist>>
       ELSE IF ~InList(whitelist.users, user_id)
       THEN LET l == [whitelist EXCEPT !.users = Append(@, user_id)]
            IN  /\ whitelist' = l
                /\ disk' = SaveJson(disk, WhitelistFile, l)
                /\ stored' = [NoStored EXCEPT !.op = "add_to_whitelist",
                                 !.user_id = user_id,
                                 !.before = UsersOf(whitelist),
                                 !.file = WhitelistFile, !.saved = TRUE]
       ELSE /\ stored' = [NoStored EXCEPT !.op = "add_to_whitelist",
                             !.user_id = user_id,
                             !.before = UsersOf(whitelist),
                             !.file = WhitelistFile]
            /\ UNCHANGED <<disk, whitelist>>
    /\ UNCHANGED <<blacklist, checkinVars, divVars, devVars, moreVars>>

\* remove_from_whitelist(user_id)
RemoveFromWhitelist(user_id) ==
    /\ IF ~HasUsers(whitelist)
       THEN /\ stored' = [NoStored EXCEPT !.op = "remove_from_whitelist",
                             !.user_id = user_id,
                             !.before = UsersOf(whitelist),
                             !.file = WhitelistFile, !.raised = TRUE]
            /\ UNCHANGED <<disk, whitelist>>
       ELSE IF InList(whitelist.users, user_id)
       THEN LET l == [whitelist EXCEPT !.users = RemoveFirst(@, user_id)]
            IN  /\ whitelist' = l
                /\ disk' = SaveJson(disk, WhitelistFile, l)
                /\ stored' = [NoStored EXCEPT !.op = "remove_from_whitelist",
                                 !.user_id = user_id,
                                 !.before = UsersOf(whitelist),
                                 !.file = WhitelistFile, !.saved = TRUE]
       ELSE /\ stored' = [NoStored EXCEPT !.op = "remove_from_whitelist",
                             !.user_id = user_id,
                             !.before = UsersOf(whitelist),
                             !.file = WhitelistFile]
            /\ UNCHANGED <<disk, whitelist>>
    /\ UNCHANGED <<blacklist, checkinVars, divVars, devVars, moreVars>>

\* _load_checkin_data: open and json.load with no handler around them.
LoadCheckinFile(d) == LoadCheckinData(JsonLoad(CheckinFile, d[CheckinFile].text))

\* handle_checkin(bot, user_id, group_id) over the text on disk, run from
\* entry to return at one clock reading.  The load raises when the
\* document is absent or is not JSON, and the exception leaves
\* handle_checkin.
StoreCheckin(user_id, group_id, fetch, sendOk) ==
    LET period == GetTimePeriod(clock.tod)
        today == StrfDate(clock.day)
        now_time == StrfTime(clock.tod)
        key == Key(user_id, group_id)
        data == LoadCheckinFile(disk)
        record == DictGet(data, key, DefaultRecord(user_id, group_id, today))
        yesterday == StrfDate(clock.day - 1)
        new_record == NewRecord(record, today, now_time, period, yesterday)
        new_data == SaveCheckinData(data, DictSet(data, key, new_record))
        h == GetHoroscope(horoscope_cache, cache_time, clock, fetch)
        done == [NoStored EXCEPT !.op = "handle_checkin",
                                 !.file = CheckinFile]
    IN  /\ IF IsBlackout(period)
           THEN /\ stored' = [done EXCEPT
                                 !.sent = <<BlackoutMsg(group_id)>>,
                                 !.raised = ~sendOk]
                /\ UNCHANGED <<disk, horoscope_cache, cache_time>>
           ELSE IF Unreadable(disk, CheckinFile)
           THEN /\ stored' = [done EXCEPT !.unreadable = {CheckinFile},
                                          !.raised = TRUE]
                /\ UNCHANGED <<disk, horoscope_cache, cache_time>>
           ELSE IF AlreadyCheckedIn(record, today)
           THEN /\ stored' = [done EXCEPT
                                 !.sent = <<AlreadyMsg(group_id)>>,
                                 !.raised = ~sendOk]
                /\ UNCHANGED <<disk, horoscope_cache, cache_time>>
           ELSE /\ disk' = SaveJson(disk, CheckinFile, new_data)
                /\ IF period = "morning"
                   THEN /\ horoscope_cache' = h.cache
                        /\ cache_time' = h.ctime
                        /\ stored' = [done EXCEPT
                              !.saved = TRUE, !.doc = new_data,
                              !.sent = <<ResponseMsg(group_id, new_record,
                                                     period, h.ret)>>,
                              !.raised = ~sendOk]
                   ELSE /\ UNCHANGED <<horoscope_cache, cache_time>>
                        /\ stored' = [done EXCEPT
                              !.saved = TRUE, !.doc = new_data,
                              !.sent = <<ResponseMsg(group_id, new_record,
                                                     period, "")>>,
                              !.raised = ~sendOk]
        /\ UNCHANGED <<clock, file, last, pc, loc, order, runs>>
        /\ UNCHANGED <<blacklist, whitelist, divVars, devVars, moreVars>>

\* Something outside the bot removes a document or leaves text in it that
\* is not JSON (a partial write, a hand edit).
Damage(f) ==
    /\ \E to \in {Missing(f), Corrupt(f)} : disk' = [disk EXCEPT ![f] = to]
    /\ stored' = NoStored
    /\ UNCHANGED <<blacklist, whitelist, checkinVars, divVars,
                   devVars, moreVars>>

StoreLists ==
    \E u \in ListUsers :
        \/ AddToBlacklist(u)
        \/ RemoveFromBlacklist(u)
        \/ AddToWhitelist(u)
        \/ RemoveFromWhitelist(u)

StoreCheckins ==
    \E s \in Subjects, fetch \in FetchOutcomes, sendOk \in BOOLEAN :
        StoreCheckin(s[1], s[2], fetch, sendOk)

DamageAny == \E f \in Files : Damage(f)

NextStore == Startup \/ StoreLists \/ StoreCheckins \/ DamageAny

\* The bot over a data directory that can be damaged between operations.
SpecStore == Init /\ [][NextStore]_vars

\* C11: loading a persisted collection whose file is missing or is not
\* valid JSON never raises and yields the collection's defined empty
\* default, so the operation that triggered the load completes.
C11_Recovery ==
    \A f \in stored.unreadable :
        /\ ~stored.raised
        /\ f = BlacklistFile =>
              DOMAIN blacklist = DOMAIN DefaultContent(BlacklistFile)
        /\ f = WhitelistFile =>
              DOMAIN whitelist = DOMAIN DefaultContent(WhitelistFile)

\* C12: after an operation has saved the check-in document, the block list
\* or the allow list, loading that document returns the value that was
\* saved, equal in every field.
C12_RoundTrip ==
    stored.saved =>
        /\ ~Unreadable(disk, stored.file)
        /\ stored.file = CheckinFile => LoadCheckinFile(disk) = stored.doc
        /\ stored.file = BlacklistFile =>
              LoadJson(disk, BlacklistFile) = blacklist
        /\ stored.file = WhitelistFile =>
              LoadJson(disk, WhitelistFile) = whitelist

\* A check-in by user 12 in group 3 has been saved next to the record of
\* another subject, its numbers written as literals of one and two digits.
C12_Witness ==
    /\ stored.saved
    /\ stored.file = CheckinFile
    /\ Key(12, 3) \in DOMAIN stored.doc
    /\ Cardinality(DOMAIN stored.doc) = 2
    /\ stored.doc[Key(12, 3)].total_days = 1

\* ------------------------------------------------------------ divination
\* The argument texts handle_divination is called with: the registered
\* signs, a name that is not registered, and the empty text.
Arguments == constellations \cup {"ophiuchus", ""}

\* The sign test of handle_divination without the test.
IsRegisteredAlways(constellation) == TRUE

\* constellation in self.constellations
IsRegistered(constellation) == constellation \in constellations

\* bot.send_group_msg(group_id, self._get_invalid_constellation_msg())
InvalidMsg(group_id) ==
    [group_id |-> group_id, kind |-> "invalid", constellation |-> "",
     level |-> 0, detail |-> 0]

\* bot.send_group_msg(group_id, self._build_message(...)): the sign, the
\* tier and the description of the message.  The advice line, chosen by a
\* further random.choice, is left out.
LuckMsg(group_id, constellation, level, detail) ==
    [group_id |-> group_id, kind |-> "luck", constellation |-> constellation,
     level |-> level, detail |-> detail]

\* _record_history(user_id, constellation, lucky_level): the list of the
\* user is created when absent; the entry is then built with
\* datetime.now(), and divination.py imports no datetime, so NameError is
\* raised before anything is appended.
RecordHistory(h, user_id) == DictGet(h, user_id, << >>)

\* handle_divination(bot, user_id, group_id, constellation), run from entry
\* to return.  r and d are what random.choices and random.choice draw,
\* sendOk whether bot.send_group_msg returns (TRUE) or raises.
HandleDivination(user_id, group_id, constellation, r, d, sendOk) ==
    LET final_weights == FinalWeights(constellation)
        probs == Normalize(final_weights)
        lucky_level == Choices(probs, r)
        call == [NoDraw EXCEPT !.user_id = user_id, !.group_id = group_id,
                               !.constellation = constellation,
                               !.before = history]
    IN  /\ IF ~IsRegistered(constellation)
           THEN /\ drawn' = [call EXCEPT !.kind = "invalid",
                                !.sent = <<InvalidMsg(group_id)>>,
                                !.raised = ~sendOk]
                /\ UNCHANGED history
           ELSE /\ drawn' = [call EXCEPT
                                !.kind = "drawn",
                                !.final_weights = final_weights,
                                !.probs = probs, !.r = r, !.d = d,
                                !.level = lucky_level, !.detail = d,
                                !.sent = <<LuckMsg(group_id, constellation,
                                                   lucky_level, d)>>,
                                !.raised = TRUE]
                /\ history' =
                      IF sendOk
                      THEN DictSet(history, user_id,
                                   RecordHistory(history, user_id))
                      ELSE history
        /\ UNCHANGED <<checkinVars, storeVars, devVars, moreVars>>

\* _generate_local_horoscope(constellation) of the astrology service, for
\* a sign whose entry of constellations.json holds the adjustments adj.
GenerateLocalHoroscope(constellation, adj, r, d) ==
    LET local_levels == LocalWeights(adj)
        normalized == Normalize(local_levels)
    IN  /\ drawn' = [NoDraw EXCEPT
                        !.kind = "local", !.constellation = constellation,
                        !.adj = adj, !.final_weights = local_levels,
                        !.probs = normalized, !.r = r, !.d = d,
                        !.level = Choices(normalized, r), !.detail = d,
                        !.before = history]
        /\ UNCHANGED <<history, checkinVars, storeVars, devVars, moreVars>>

Divination ==
    \E s \in Subjects, c \in Arguments, r \in RandomValues, d \in Details,
       sendOk \in BOOLEAN :
        HandleDivination(s[1], s[2], c, r, d, sendOk)

LocalHoroscope ==
    \E c \in LocalSigns, adj \in LocalAdjustments, r \in RandomValues,
       d \in Details :
        GenerateLocalHoroscope(c, adj, r, d)

NextDraw == Divination \/ LocalHoroscope

\* Neither surface reads the clock before it returns or raises, so one
\* instant stands for all.
InitNoon == Init /\ clock = [day |-> 1, tod |-> 720]

\* Divination commands and local horoscopes, in any order.
SpecDraw == InitNoon /\ [][NextDraw]_vars

\* C13: whenever the adjusted weights of a draw are all non-negative, the
\* five probabilities used for it (adjusted weight over the sum of the
\* adjusted weights) sum to 1, for each registered sign, with or without
\* an adjustment map.
C13_Normalized ==
    (/\ drawn.kind \in {"drawn", "local"}
     /\ \A t \in levels : drawn.final_weights[t] >= 0)
    => /\ drawn.probs.den > 0
       /\ \A t \in levels : drawn.probs.num[t] = drawn.final_weights[t]
       /\ Total(drawn.probs.num) = drawn.probs.den

\* A draw for 白羊座, whose adjusted weights sum to 1.02.
C13_Witness ==
    /\ drawn.kind = "drawn"
    /\ drawn.constellation = "aries"
    /\ Total(drawn.final_weights) = 102
    /\ drawn.probs.den = 102

\* C14: an adjustment that would make a tier's weight negative is
\* rejected as a configuration error; no draw is made from it and the
\* weight is not clamped.
C14_Rejected ==
    (/\ drawn.kind \in {"drawn", "local"}
     /\ \/ \E t \in levels : drawn.final_weights[t] < 0
        \/ \E t \in DOMAIN drawn.adj : LocalLevels[t] + drawn.adj[t] < 0)
    => /\ drawn.level = 0
       /\ drawn.raised

\* The delta the adjustment table lists for a tier of a sign, 0 if none.
ListedDelta(constellation, t) ==
    IF constellation \notin DOMAIN adjustments THEN 0
    ELSE IF t \notin DOMAIN adjustments[constellation] THEN 0
    ELSE adjustments[constellation][t]

\* C15: before the division each tier's weight is its base weight plus the
\* delta listed for it, the base weight when none is listed; a sign with
\* no adjustment map draws from the base table; whatever was drawn before.
C15_Adjusted ==
    drawn.kind = "drawn" =>
        /\ \A t \in levels :
              drawn.final_weights[t] =
                  weights[t] + ListedDelta(drawn.constellation, t)
        /\ drawn.constellation \notin DOMAIN adjustments =>
              drawn.final_weights = <<15, 25, 35, 20, 5>>

\* A draw for 摩羯座, made after an earlier draw, with 中吉 raised to 0.35
\* and 大凶 cut to 0.
C15_Witness ==
    /\ drawn.kind = "drawn"
    /\ drawn.constellation = "capricorn"
    /\ drawn.before # EmptyDict
    /\ drawn.final_weights = <<15, 35, 35, 20, 0>>

\* The cumulative tier boundaries of the base table, in hundredths.
Boundaries == <<0, 15, 40, 75, 95, 100>>

C17_Unknown ==
    (drawn.kind \in {"invalid", "drawn"}
     /\ drawn.constellation \notin constellations)
    => /\ drawn.kind = "invalid"
       /\ drawn.sent = <<InvalidMsg(drawn.group_id)>>
       /\ drawn.level = 0
       /\ history = drawn.before

\* An unregistered name, sent by a user for whom a list exists, after a
\* valid divination by that user.
C17_Witness ==
    /\ drawn.kind = "invalid"
    /\ drawn.constellation = "ophiuchus"
    /\ drawn.user_id \in DOMAIN history
    /\ drawn.sent = <<InvalidMsg(drawn.group_id)>>

\* --------------------------------------------------------- admin surfaces
\* A message handed to the bot: the account it goes to (bot.send answers
\* the sender of the event), what it says, and the shutdown code its text
\* holds ("" when it holds none).
Msg(to, kind, code) == [to |-> to, kind |-> kind, code |-> code]

\* The state the admin surfaces can change.
DevState ==
    [agents |-> agents, group_approve_mode |-> group_approve_mode,
     shutdown_codes |-> shutdown_codes]

\* The messages check_developer_commands is called with: 参谋 and 变卦
\* followed by an account number or by text that is not a number (qq = -1),
\* 观星, 合眼, and a message that is no command.
Commands ==
    [word : {"add", "remove"}, qq : DelegateIds \cup {-1}]
        \cup [word : {"observe", "rest", "chat"}, qq : {-1}]

\* The delegate lists the configuration can start with: validate_agents
\* accepts at most two entries.
StartAgents == {<< >>, <<12>>, <<12, 23>>}

\* The fullness test of _handle_agent_add that lets a third delegate in.
AgentsFullAboveTwo(a) == Len(a) > 2

\* len(config.config.agents) >= 2
AgentsFull(a) == Len(a) >= 2

\* handle_developer(bot, user_id)
HandleDeveloper(user_id) ==
    LET call == [NoReply EXCEPT !.op = "handle_developer",
                                !.user_id = user_id, !.before = DevState]
    IN  /\ IF ~IsAdmin(agents, user_id)
           THEN reply' = call
           ELSE reply' = [call EXCEPT !.sent = <<Msg(user_id, "menu", "")>>]
        /\ UNCHANGED <<agents, group_approve_mode, shutdown_codes, issued>>
        /\ UNCHANGED <<checkinVars, storeVars, divVars, moreVars>>

\* check_developer_commands(bot, event) with _handle_agent_add and
\* _handle_agent_remove.  config.save_config() is called after each
\* change; ConfigManager as it is in the source has no such method, so the
\* call either returns (saveOk) or raises, and then nothing is sent.
DeveloperCommandsOf(user_id, cmd, saveOk) ==
    LET call == [NoReply EXCEPT !.op = "check_developer_commands",
                                !.user_id = user_id, !.cmd = cmd,
                                !.before = DevState]
        false == [call EXCEPT !.ret = "False"]
        true(kind) == [call EXCEPT !.ret = "True",
                                   !.sent = <<Msg(user_id, kind, "")>>]
        saved(kind) == IF saveOk THEN true(kind)
                       ELSE [call EXCEPT !.raised = TRUE]
    IN  /\ IF ~IsAdmin(agents, user_id)
           THEN /\ reply' = false
                /\ UNCHANGED <<agents, group_approve_mode>>
           ELSE IF cmd.word = "add"
           THEN IF cmd.qq = -1
                THEN /\ reply' = false
                     /\ UNCHANGED <<agents, group_approve_mode>>
                ELSE IF AgentsFull(agents)
                THEN /\ reply' = true("full")
                     /\ UNCHANGED <<agents, group_approve_mode>>
                ELSE /\ agents' = Append(agents, cmd.qq)
                     /\ reply' = saved("added")
                     /\ UNCHANGED group_approve_mode
           ELSE IF cmd.word = "remove"
           THEN IF cmd.qq = -1
                THEN /\ reply' = false
                     /\ UNCHANGED <<agents, group_approve_mode>>
                ELSE IF InList(agents, cmd.qq)
                THEN /\ agents' = RemoveFirst(agents, cmd.qq)
                     /\ reply' = saved("removed")
                     /\ UNCHANGED group_approve_mode
                ELSE /\ reply' = true("not_agent")
                     /\ UNCHANGED <<agents, group_approve_mode>>
           ELSE IF cmd.word = "observe"
           THEN /\ group_approve_mode' = TRUE
                /\ reply' = saved("observing")
                /\ UNCHANGED agents
           ELSE IF cmd.word = "rest"
           THEN /\ group_approve_mode' = FALSE
                /\ reply' = saved("resting")
                /\ UNCHANGED agents
           ELSE /\ reply' = false
                /\ UNCHANGED <<agents, group_approve_mode>>
        /\ UNCHANGED <<shutdown_codes, issued>>

\* check_developer_commands called on its own.
CheckDeveloperCommands(user_id, cmd, saveOk) ==
    /\ DeveloperCommandsOf(user_id, cmd, saveOk)
    /\ UNCHANGED <<checkinVars, storeVars, divVars, moreVars>>

\* handle_shutdown(bot, event), code being what secrets.token_hex(4)
\* returns: the code is stored for the sender, sent to master_qq, and
\* written into the answer to the sender.
HandleShutdown(user_id, code) ==
    LET call == [NoReply EXCEPT !.op = "handle_shutdown",
                                !.user_id = user_id, !.before = DevState,
                                !.now = AbsMinutes(clock)]
    IN  /\ IF ~IsAdmin(agents, user_id)
           THEN /\ reply' = call
                /\ UNCHANGED <<shutdown_codes, issued>>
           ELSE /\ shutdown_codes' =
                      DictSet(shutdown_codes, code, IntStr(user_id))
                /\ issued' = DictSet(issued, code,
                                     [user_id |-> user_id,
                                      at |-> AbsMinutes(clock)])
                /\ reply' = [call EXCEPT
                                !.code = code,
                                !.sent = <<Msg(master_qq, "code", code),
                                           Msg(user_id, "enter", code)>>]
        /\ UNCHANGED <<agents, group_approve_mode>>
        /\ UNCHANGED <<checkinVars, storeVars, divVars, moreVars>>

\* The test of verify_shutdown without the comparison of the sender.
CodeAcceptedFromAnyone(codes, user_id, code) == code \in DOMAIN codes

\* code in self.shutdown_codes and
\* self.shutdown_codes[code] == str(event.user_id)
CodeAccepted(codes, user_id, code) ==
    /\ code \in DOMAIN codes
    /\ codes[code] = IntStr(user_id)

\* verify_shutdown(bot, event, code)
VerifyShutdown(user_id, code) ==
    LET call == [NoReply EXCEPT !.op = "verify_shutdown",
                                !.user_id = user_id, !.code = code,
                                !.before = DevState,
                                !.now = AbsMinutes(clock)]
    IN  /\ IF CodeAccepted(shutdown_codes, user_id, code)
           THEN reply' = [call EXCEPT
                             !.ret = "True",
                             !.sent = <<Msg(user_id, "closed", "")>>]
           ELSE reply' = [call EXCEPT
                             !.ret = "False",
                             !.sent = <<Msg(user_id, "failed", "")>>]
        /\ UNCHANGED <<agents, group_approve_mode, shutdown_codes, issued>>
        /\ UNCHANGED <<checkinVars, storeVars, divVars, moreVars>>

\* check_permission(bot, event, matcher, state) of core.py, under the
\* value permission_mode of the configuration.  matcher.finish sends its
\* text to the sender and raises FinishedException.
CheckPermission(user_id, permission_mode) ==
    LET call == [NoReply EXCEPT !.op = "check_permission",
                                !.user_id = user_id, !.before = DevState]
    IN  /\ IF IsAdmin(agents, user_id)
           THEN reply' = [call EXCEPT !.ret = "True"]
           ELSE IF IsVip(user_id) /\ ~permission_mode
           THEN reply' = [call EXCEPT !.ret = "True"]
           ELSE reply' = [call EXCEPT
                             !.sent = <<Msg(user_id, "denied", "")>>,
                             !.raised = TRUE]
        /\ UNCHANGED <<agents, group_approve_mode, shutdown_codes, issued>>
        /\ UNCHANGED <<checkinVars, storeVars, divVars, moreVars>>

Developer == \E u \in Accounts : HandleDeveloper(u)

DeveloperCommands ==
    \E u \in Accounts, cmd \in Commands, saveOk \in BOOLEAN :
        CheckDeveloperCommands(u, cmd, saveOk)

Shutdown == \E u \in Accounts, code \in Codes : HandleShutdown(u, code)

Verify ==
    \E u \in Accounts, code \in Codes \cup {"ffffffff"} :
        VerifyShutdown(u, code)

Permission ==
    \E u \in Accounts, permission_mode \in BOOLEAN :
        CheckPermission(u, permission_mode)

NextDev ==
    Developer \/ DeveloperCommands \/ Shutdown \/ Verify \/ Permission

\* The bot started under a configuration with at most two delegates.
InitDev ==
    /\ CheckinInit /\ clock = [day |-> 1, tod |-> 720]
    /\ StoreInit
    /\ DivInit
    /\ agents \in StartAgents
    /\ group_approve_mode = FALSE
    /\ shutdown_codes = EmptyDict
    /\ reply = NoReply
    /\ issued = EmptyDict
    /\ SvcInit
    /\ GateInit

\* The admin surfaces, called by any account in any order.
SpecDev == InitDev /\ [][NextDev]_vars

\* C18: a call of handle_developer, check_developer_commands,
\* handle_shutdown or check_permission by an account that is neither the
\* owner nor a delegate sends no message and changes neither the delegate
\* list, nor the approve mode, nor the shutdown codes.
C18_Silent ==
    (/\ reply.op \in {"handle_developer", "check_developer_commands",
                      "handle_shutdown", "check_permission"}
     /\ ~IsAdmin(reply.before.agents, reply.user_id))
    => /\ reply.sent = << >>
       /\ DevState = reply.before

\* C19: the delegate list never holds more than 2 entries, and an add
\* command of an admin issued when it holds 2 leaves it as it was and is
\* answered with the list-is-full message.
C19_Bound ==
    /\ Len(agents) <= 2
    /\ (/\ reply.op = "check_developer_commands"
        /\ reply.cmd.word = "add"
        /\ reply.cmd.qq # -1
        /\ IsAdmin(reply.before.agents, reply.user_id)
        /\ Len(reply.before.agents) = 2)
       => /\ agents = reply.before.agents
          /\ reply.sent = <<Msg(reply.user_id, "full", "")>>

\* A delegate has asked for a third delegate while two exist, after one
\* of the first two had been removed and another added.
C19_Witness ==
    /\ reply.op = "check_developer_commands"
    /\ reply.cmd = [word |-> "add", qq |-> 12]
    /\ reply.user_id = 3
    /\ agents = <<23, 3>>
    /\ reply.sent = <<Msg(3, "full", "")>>

\* C20: handle_shutdown discloses the code it generates to the owner
\* only: no message that holds the code goes to another account.
C20_OutOfBand ==
    reply.op = "handle_shutdown" =>
        \A i \in 1..Len(reply.sent) :
            reply.sent[i].code # "" => reply.sent[i].to = master_qq

\* ----------------------------------------------------- get_daily_horoscope
\* The arguments get_daily_horoscope is called with: a registered sign and
\* a name that is no sign.
ServiceArguments == {"aries", "ophiuchus"}

\* The "adjustments" entry of a sign in constellations.json.
AdjustmentsOf(constellation) ==
    IF constellation = "aries" THEN [t \in {1} |-> 5] ELSE [t \in {} |-> 0]

\* The ways the GET of _fetch_online_horoscope ends: a JSON object that
\* holds lucky_level, a JSON object that holds none of the fields read, no
\* answer within 10 s, a status raise_for_status rejects, and a body
\* response.json() cannot parse.
ServiceFetches ==
    {[kind |-> "ok", data |-> [k \in {"lucky_level"} |-> 1]],
     [kind |-> "ok", data |-> EmptyDict],
     [kind |-> "timeout", data |-> EmptyDict],
     [kind |-> "status", data |-> EmptyDict],
     [kind |-> "malformed", data |-> EmptyDict]}

\* The values random() and the index random.choice draws take while a
\* horoscope is generated locally.
ServiceRandom == {2, 74}

ServiceDetails == {1, 3}

\* except clause of get_daily_horoscope that names the timeout alone.
CaughtTimeoutOnly(kind) == kind = "timeout"

\* except Exception: httpx.TimeoutException, httpx.HTTPStatusError and
\* json.JSONDecodeError all derive from Exception.
Caught(kind) == kind \in {"timeout", "status", "malformed"}

\* The dictionary _fetch_online_horoscope returns: data.get("lucky_level",
\* "中吉") and the texts of the API.
OnlineResult(data) ==
    [source |-> "online", level |-> DictGet(data, "lucky_level", 2),
     detail |-> 0]

\* The dictionary _generate_local_horoscope returns when random() gives
\* r / 100 and random.choice the description d.
LocalResult(constellation, r, d) ==
    [source |-> "local",
     level |-> Choices(Normalize(LocalWeights(AdjustmentsOf(constellation))),
                       r),
     detail |-> d]

\* get_daily_horoscope(constellation) from its entry to its first
\* suspension: the sign is validated, the cache is read, and on a miss
\* the call waits for the GET.
BeginHoroscope(p, constellation) ==
    LET key == CacheKey(clock.day, constellation)
        call == [NoAnswer EXCEPT !.op = "get_daily_horoscope", !.p = p,
                                 !.constellation = constellation,
                                 !.day = clock.day]
    IN  /\ ~fetching[p].waiting
        /\ IF constellation \notin constellations
           THEN /\ answered' = [call EXCEPT !.raised = TRUE]
                /\ UNCHANGED fetching
           ELSE IF key \in DOMAIN service_cache
           THEN /\ answered' = [call EXCEPT
                                   !.result = service_cache[key],
                                   !.earlier = DictGet(first_result, key,
                                                       NoResult)]
                /\ UNCHANGED fetching
           ELSE /\ fetching' = [fetching EXCEPT ![p] =
                                   [waiting |-> TRUE,
                                    constellation |-> constellation,
                                    day |-> clock.day]]
                /\ UNCHANGED answered
        /\ UNCHANGED <<service_cache, first_result>>
        /\ UNCHANGED <<checkinVars, storeVars, divVars, devVars, gateVars>>

\* get_daily_horoscope from the end of the GET to its return: the result
\* is the one fetched, or the locally generated one when the GET raised an
\* exception the handler catches; it is stored under the key built before
\* the GET and returned.
EndHoroscope(p, fetch, r, d) ==
    LET constellation == fetching[p].constellation
        key == CacheKey(fetching[p].day, constellation)
        call == [NoAnswer EXCEPT !.op = "get_daily_horoscope", !.p = p,
                                 !.constellation = constellation,
                                 !.day = fetching[p].day,
                                 !.fetch = fetch.kind,
                                 !.earlier = DictGet(first_result, key,
                                                     NoResult)]
        local == LocalResult(constellation, r, d)
        return(result) ==
            /\ service_cache' = DictSet(service_cache, key, result)
            /\ first_result' = IF key \in DOMAIN first_result
                               THEN first_result
                               ELSE DictSet(first_result, key, result)
    IN  /\ fetching[p].waiting
        /\ fetching' = [fetching EXCEPT ![p] = NoFetch]
        /\ IF fetch.kind = "ok"
           THEN /\ answered' = [call EXCEPT
                                   !.result = OnlineResult(fetch.data)]
                /\ return(OnlineResult(fetch.data))
           ELSE IF Caught(fetch.kind)
           THEN /\ answered' = [call EXCEPT !.r = r, !.d = d,
                                            !.result = local]
                /\ return(local)
           ELSE /\ answered' = [call EXCEPT !.raised = TRUE]
                /\ UNCHANGED <<service_cache, first_result>>
        /\ UNCHANGED <<checkinVars, storeVars, divVars, devVars, gateVars>>

\* The date changes; calls that wait on the GET keep waiting.
Midnight ==
    /\ clock.day < ServiceDays
    /\ clock' = [clock EXCEPT !.day = @ + 1]
    /\ UNCHANGED <<file, horoscope_cache, cache_time, last, pc, loc, order,
                   runs>>
    /\ UNCHANGED extVars

BeginService ==
    \E p \in Procs, c \in ServiceArguments : BeginHoroscope(p, c)

EndService ==
    \E p \in Procs, fetch \in ServiceFetches, r \in ServiceRandom,
       d \in ServiceDetails :
        EndHoroscope(p, fetch, r, d)

NextService == BeginService \/ EndService \/ Midnight

\* The service reads the date and never the time of day, so one time of
\* day stands for all.
InitService == Init /\ clock = [day |-> 1, tod |-> 720]

\* Calls of get_daily_horoscope that overlap while they wait on the GET.
SpecService == InitService /\ [][NextService]_vars

\* C21: a get_daily_horoscope call for a registered sign returns a
\* horoscope and does not raise; when its GET timed out, was answered
\* with an error status or with a body that is not JSON, what it returns
\* is the horoscope the local generator made from the draws of the call.
C21_BestEffort ==
    (/\ answered.op = "get_daily_horoscope"
     /\ answered.constellation \in constellations)
    => /\ ~answered.raised
       /\ answered.result.source \in {"online", "local"}
       /\ answered.result.level \in levels
       /\ answered.fetch \in {"timeout", "status", "malformed"}
            => answered.result =
                  LocalResult(answered.constellation, answered.r, answered.d)

C21_Witness ==
    /\ answered.op = "get_daily_horoscope"
    /\ answered.constellation \in constellations
    /\ answered.fetch = "status"
    /\ answered.result.source = "local"

\* C28: a get_daily_horoscope call that returns after another call for
\* the same date and sign has returned, returns what that call returned.
C28_Stable ==
    (/\ answered.op = "get_daily_horoscope"
     /\ ~answered.raised
     /\ answered.earlier # NoResult)
    => answered.result = answered.earlier

\* ------------------------------------------------------- membership lists
\* The four membership operations alone, from the lists of a fresh data
\* directory, which are empty.
SpecLists == InitNoon /\ [][StoreLists]_vars

\* A list in which no account occurs twice.
NoDuplicates(s) == \A i, j \in 1..Len(s) : s[i] = s[j] => i = j

\* The list the last membership operation worked on, and the document it
\* is saved in.
ListOf(op) ==
    IF op \in {"add_to_blacklist", "remove_from_blacklist"}
    THEN blacklist ELSE whitelist

MembershipOpNames ==
    {"add_to_blacklist", "remove_from_blacklist", "add_to_whitelist",
     "remove_from_whitelist"}

\* C22: no account occurs twice in either list; after an add the account
\* is a member and after a remove it is not, the membership of every
\* other account being what it was; an add of a member and a remove of a
\* non-member leave the list as it was and write nothing; and after an
\* operation that changed the list, the document on disk loads to the
\* list in memory.
C22_Sets ==
    /\ NoDuplicates(blacklist.users)
    /\ NoDuplicates(whitelist.users)
    /\ stored.op \in MembershipOpNames =>
          LET l == ListOf(stored.op)
              adding == stored.op \in {"add_to_blacklist", "add_to_whitelist"}
              was == InList(stored.before, stored.user_id)
          IN  /\ ~stored.raised
              /\ InList(l.users, stored.user_id) <=> adding
              /\ \A u \in ListUsers \ {stored.user_id} :
                    InList(l.users, u) <=> InList(stored.before, u)
              /\ (adding <=> was) => /\ l.users = stored.before
                                     /\ ~stored.saved
              /\ (adding <=> ~was) => /\ stored.saved
                                      /\ LoadJson(disk, stored.file) = l

\* An account was removed from a blacklist that held two.
C22_Witness ==
    /\ stored.op = "remove_from_blacklist"
    /\ stored.saved
    /\ Len(stored.before) = 2
    /\ Len(blacklist.users) = 1
    /\ Len(whitelist.users) > 0

\* ---------------------------------------------------- check-in replies
\* The kinds of message handle_checkin answers a successful check-in with.
SuccessKinds == {"success_morning", "success_afternoon"}

\* C23: a handle_checkin invocation hands exactly one message to the bot,
\* a blackout, an already-checked-in or a success reply; it writes the
\* document exactly when the reply is a success reply; and at night the
\* reply is the blackout reply whatever the record holds.
C23_OneReply ==
    stored.op = "handle_checkin"
    => /\ Len(stored.sent) = 1
       /\ stored.sent[1].kind \in {"blackout", "already"} \cup SuccessKinds
       /\ stored.saved <=> stored.sent[1].kind \in SuccessKinds
       /\ IsBlackout(GetTimePeriod(clock.tod))
            => stored.sent[1].kind = "blackout"

\* ------------------------------------------------------------ join requests
\* config.is_blacklisted(user_id)
IsBlacklisted(l, user_id) == InList(l.users, user_id)

\* config.is_whitelisted(user_id): membership of whitelist["users"], as
\* is_blacklisted is for the blacklist.
IsWhitelisted(l, user_id) == InList(l.users, user_id)

\* The events handle_request is called with: a request to join a group
\* and a friend request.
RequestKinds == {"group_add", "friend"}

\* The ways _auto_approve_check ends.  _get_user_level always raises
\* (random is not imported in group_manage.py) and the bare except
\* swallows it; config.approve_rules either lacks the attribute, and the
\* AttributeError leaves handle_request ("raise"), or holds keyword_rules
\* of which one occurs in the comment ("approve") or none ("forward").
AutoOutcomes == {"approve", "forward", "raise"}

\* The order of handle_request with the whitelist asked first.
RequestVerdictWhitelistFirst(blacklisted, whitelisted, auto) ==
    IF whitelisted THEN "approve"
    ELSE IF blacklisted THEN "reject"
    ELSE auto

\* What handle_request does with a join request once the approve mode is
\* known to be on: blacklist, then whitelist, then automatic review.
RequestVerdict(blacklisted, whitelisted, auto) ==
    IF blacklisted THEN "reject"
    ELSE IF whitelisted THEN "approve"
    ELSE auto

\* A bot.set_group_add_request call.
AddRequestCall(approve, reason) == [approve |-> approve, reason |-> reason]

\* handle_request(bot, event) with _auto_approve_check and
\* _forward_to_admins.
HandleRequest(user_id, kind, auto) ==
    LET blacklisted == IsBlacklisted(blacklist, user_id)
        whitelisted == IsWhitelisted(whitelist, user_id)
        call == [NoRequest EXCEPT !.op = "handle_request",
                                  !.user_id = user_id,
                                  !.mode = group_approve_mode]
        read == [call EXCEPT !.blacklisted = blacklisted,
                             !.whitelisted = whitelisted]
        verdict == RequestVerdict(blacklisted, whitelisted, auto)
    IN  /\ IF kind # "group_add" \/ ~group_approve_mode
           THEN request' = call
           ELSE IF verdict = "reject"
           THEN request' = [read EXCEPT
                               !.calls = <<AddRequestCall(FALSE,
                                                          "blacklisted")>>]
           ELSE IF verdict = "approve"
           THEN request' = [read EXCEPT
                               !.auto = IF whitelisted THEN "none" ELSE auto,
                               !.calls = <<AddRequestCall(
                                             TRUE,
                                             IF whitelisted THEN "welcome"
                                             ELSE "reviewed")>>]
           ELSE IF verdict = "forward"
           THEN request' = [read EXCEPT !.auto = auto,
                                        !.forwarded = <<master_qq>> \o agents]
           ELSE request' = [read EXCEPT !.auto = auto, !.raised = TRUE]
        /\ UNCHANGED <<blocked_words, permission_requests, handled>>
        /\ UNCHANGED <<checkinVars, storeVars, divVars, devVars, svcVars>>

Requests ==
    \E u \in ListUsers, kind \in RequestKinds, auto \in AutoOutcomes :
        HandleRequest(u, kind, auto)

\* The owner switches the approve mode on (观星) and off (合眼).
ModeCommands ==
    \E word \in {"observe", "rest"}, saveOk \in BOOLEAN :
        CheckDeveloperCommands(master_qq, [word |-> word, qq |-> -1],
                               saveOk)

NextJoin == StoreLists \/ ModeCommands \/ Requests

\* Join requests arriving while the lists and the approve mode change.
SpecJoin == InitNoon /\ [][NextJoin]_vars

\* C24: while the approve mode is on, a join request of a blacklisted
\* account is answered with one set_group_add_request call that refuses
\* it, whether or not the account is whitelisted or would pass the
\* automatic review, and is not forwarded; while the mode is off, no
\* set_group_add_request call is made.
C24_Gate ==
    request.op = "handle_request"
    => /\ (request.mode /\ request.blacklisted)
            => /\ Len(request.calls) = 1
               /\ ~request.calls[1].approve
               /\ request.forwarded = << >>
               /\ ~request.raised
       /\ ~request.mode => request.calls = << >>

\* A blacklisted account that is also whitelisted asked to join while
\* the mode was on.
C24_Witness ==
    /\ request.op = "handle_request"
    /\ request.mode
    /\ request.blacklisted
    /\ request.whitelisted
    /\ Len(request.calls) = 1

\* ------------------------------------------------------- delegate removal
\* C25: once a 变卦 command naming an account has been answered with the
\* removal confirmation, that account is no delegate.
C25_Removed ==
    (/\ reply.op = "check_developer_commands"
     /\ reply.cmd.word = "remove"
     /\ \E i \in 1..Len(reply.sent) : reply.sent[i].kind = "removed")
    => ~IsAgent(agents, reply.cmd.qq)

\* --------------------------------------------------------- handle_message
\* The accounts that write to the group: the owner, an account that can
\* be a delegate, one that never is, and the VIP.
Senders == {master_qq, 12, 3} \cup vip_users

\* The messages they write: 参谋12, 变卦12, and two that are no command,
\* one of them holding the word "spam".
Messages ==
    {[cmd |-> [word |-> "add", qq |-> 12], text |-> {}],
     [cmd |-> [word |-> "remove", qq |-> 12], text |-> {}],
     [cmd |-> [word |-> "chat", qq |-> -1], text |-> {}],
     [cmd |-> [word |-> "chat", qq |-> -1], text |-> {"spam"}]}

\* event.time of the messages, in seconds.
EventTimes == {1700000000, 1700000060}

\* event.group_id of the messages.
MessageGroups == {23}

\* The documents blocked_words.json can hold when the bot starts.
BlockedWordsFiles == {DefaultBlockedWords, OperatorBlockedWords}

\* f"{event.time}_{event.user_id}_{event.group_id}", kept as its parts.
RequestId(time, user_id, group_id) == <<time, user_id, group_id>>

\* config.config.permission_mode and not (config.is_admin(user_id) or
\* config.is_vip(user_id))
NeedsPermission(a, user_id, permission_mode) ==
    permission_mode /\ ~(IsAdmin(a, user_id) \/ IsVip(user_id))

\* handle_message(bot, event) of core.py with check_developer_commands,
\* check_blocked_words, _handle_blocked_word and request_permission.
\* config.blocked_words.get raises AttributeError when the document
\* loaded is a list.
HandleMessage(user_id, group_id, time, msg, permission_mode, saveOk) ==
    LET call == [NoHandled EXCEPT
                    !.op = "handle_message", !.user_id = user_id,
                    !.cmd = msg.cmd, !.text = msg.text,
                    !.permission_mode = permission_mode,
                    !.before = [agents |-> agents,
                                permission_requests |-> permission_requests]]
        request_id == RequestId(time, user_id, group_id)
        admins == <<master_qq>> \o agents
    IN  /\ DeveloperCommandsOf(user_id, msg.cmd, saveOk)
        /\ IF reply'.raised
           THEN /\ handled' = [call EXCEPT !.stage = "developer",
                                           !.raised = TRUE]
                /\ UNCHANGED permission_requests
           ELSE IF reply'.ret = "True"
           THEN /\ handled' = [call EXCEPT !.stage = "developer",
                                           !.sent = reply'.sent]
                /\ UNCHANGED permission_requests
           ELSE IF ~IsAdmin(agents, user_id) /\ blocked_words.shape # "dict"
           THEN /\ handled' = [call EXCEPT !.raised = TRUE]
                /\ UNCHANGED permission_requests
           ELSE IF /\ ~IsAdmin(agents, user_id)
                   /\ \E word \in blocked_words.words : word \in msg.text
           THEN /\ handled' = [call EXCEPT
                                  !.stage = "blocked",
                                  !.sent = <<Msg(group_id, "warning", "")>>]
                /\ UNCHANGED permission_requests
           ELSE IF NeedsPermission(agents, user_id, permission_mode)
           THEN /\ permission_requests' =
                      DictSet(permission_requests, request_id,
                              [user_id |-> user_id, group_id |-> group_id,
                               responded |-> FALSE])
                /\ handled' = [call EXCEPT
                                  !.stage = "permission",
                                  !.request_id = request_id,
                                  !.sent = [i \in 1..Len(admins) |->
                                              Msg(admins[i], "permission",
                                                  "")]]
           ELSE /\ handled' = call
                /\ UNCHANGED permission_requests
        /\ UNCHANGED <<request, blocked_words>>
        /\ UNCHANGED <<checkinVars, storeVars, divVars, svcVars>>

MessagesArrive ==
    \E u \in Senders, g \in MessageGroups, time \in EventTimes,
       msg \in Messages, permission_mode \in BOOLEAN, saveOk \in BOOLEAN :
        HandleMessage(u, g, time, msg, permission_mode, saveOk)

\* The bot started with at most two delegates and either document of
\* blocked words.
InitPipeline ==
    /\ CheckinInit /\ clock = [day |-> 1, tod |-> 720]
    /\ StoreInit
    /\ DivInit
    /\ agents \in StartAgents
    /\ group_approve_mode = FALSE
    /\ shutdown_codes = EmptyDict
    /\ reply = NoReply
    /\ issued = EmptyDict
    /\ SvcInit
    /\ request = NoRequest
    /\ blocked_words \in BlockedWordsFiles
    /\ permission_requests = EmptyDict
    /\ handled = NoHandled

\* Group messages handled one after another.
SpecPipeline == InitPipeline /\ [][MessagesArrive]_vars

\* The sender of the last message was the owner or a delegate when it
\* arrived.
SenderWasAdmin == IsAdmin(handled.before.agents, handled.user_id)

\* C26: a message of the owner or of a delegate is never treated as a
\* blocked-word violation; a message of the owner, a delegate or a VIP
\* stores no permission request; a message handled as a developer
\* command goes no further; and with permission_mode on, a message of
\* any other account that is neither a developer command nor a
\* blocked-word violation stores one permission request, not yet
\* responded to, and notifies the owner and every delegate.
C26_Pipeline ==
    handled.op = "handle_message"
    => /\ SenderWasAdmin => handled.stage # "blocked"
       /\ (SenderWasAdmin \/ IsVip(handled.user_id))
            => /\ handled.stage # "permission"
               /\ permission_requests = handled.before.permission_requests
       /\ handled.stage \in {"developer", "blocked"}
            => permission_requests = handled.before.permission_requests
       /\ (/\ handled.permission_mode
           /\ ~SenderWasAdmin
           /\ ~IsVip(handled.user_id)
           /\ handled.stage \notin {"developer", "blocked"})
            => /\ handled.stage = "permission"
               /\ handled.request_id \in DOMAIN permission_requests
               /\ ~permission_requests[handled.request_id].responded
               /\ \A k \in DOMAIN permission_requests \ {handled.request_id} :
                     /\ k \in DOMAIN handled.before.permission_requests
                     /\ permission_requests[k] =
                           handled.before.permission_requests[k]
               /\ {handled.sent[i].to : i \in 1..Len(handled.sent)} =
                     {master_qq} \cup
                       {agents[i] : i \in 1..Len(agents)}

\* ------------------------------------------------ cooperative scheduling
\* handle_checkin from its entry to the first await that suspends.  The
\* bodies of _load_checkin_data and _save_checkin_data hold no await, so
\* awaiting them does not give control to the event loop, nor does
\* entering _send_checkin_response and _get_horoscope: an invocation runs
\* on to bot.send_group_msg or to the GET of the almanac.
Enter(p, user_id, group_id) ==
    LET period == GetTimePeriod(clock.tod)
        today == StrfDate(clock.day)
        key == Key(user_id, group_id)
        l == [NoLocals EXCEPT !.user_id = user_id, !.group_id = group_id,
                              !.now = clock, !.period = period]
        m == [l EXCEPT !.today = today, !.now_time = StrfTime(clock.tod),
                       !.key = key]
        data == LoadCheckinData(file)
        record == DictGet(data, key, DefaultRecord(user_id, group_id, today))
        yesterday == StrfDate(clock.day - 1)
        new_record == NewRecord(record, today, m.now_time, period, yesterday)
        new_data == DictSet(data, key, new_record)
        cached == CacheValid(horoscope_cache, cache_time, clock)
        others == SelectSeq(order, LAMBDA e : e.p # p)
        load == [ev |-> "load", p |-> p, key |-> key, rec |-> record,
                 doc |-> data]
        save == [ev |-> "save", p |-> p, key |-> key, rec |-> new_record,
                 doc |-> new_data]
    IN  /\ pc[p] = "idle"
        /\ \A q \in Procs : q < p => pc[q] # "idle"
        /\ runs < MaxRuns
        /\ runs' = runs + 1
        /\ IF IsBlackout(period)
           THEN /\ loc' = [loc EXCEPT ![p] = l]
                /\ pc' = [pc EXCEPT ![p] = "send_blackout"]
                /\ order' = others
                /\ UNCHANGED file
           ELSE IF AlreadyCheckedIn(record, today)
           THEN /\ loc' = [loc EXCEPT ![p] =
                              [m EXCEPT !.loaded = data, !.data = data]]
                /\ pc' = [pc EXCEPT ![p] = "send_already"]
                /\ order' = Append(others, load)
                /\ UNCHANGED file
           ELSE /\ file' = SaveCheckinData(file, new_data)
                /\ loc' = [loc EXCEPT ![p] =
                              [m EXCEPT
                                  !.loaded = data, !.data = new_data,
                                  !.new_record = new_record,
                                  !.horoscope =
                                      IF period = "morning" /\ cached
                                      THEN horoscope_cache ELSE ""]]
                /\ pc' = [pc EXCEPT ![p] =
                             IF period = "morning" /\ ~cached
                             THEN "fetching" ELSE "send_response"]
                /\ order' = others \o <<load, save>>
        /\ UNCHANGED <<clock, horoscope_cache, cache_time, last>>
        /\ UNCHANGED extVars

\* An invocation that waits on the bot or on the GET is resumed.
Resume(p) ==
    \/ \E sendOk \in BOOLEAN : SendBlackout(p, sendOk)
    \/ \E sendOk \in BOOLEAN : SendAlready(p, sendOk)
    \/ \E fetch \in FetchOutcomes : FetchReturn(p, fetch)
    \/ \E sendOk \in BOOLEAN : SendResponse(p, sendOk)

EnterAny == \E p \in Procs, s \in Subjects : Enter(p, s[1], s[2])

ResumeAny == \E p \in Procs : Resume(p)

\* Invocations interleave where the event loop can switch between them.
NextCoop == Tick \/ EnterAny \/ ResumeAny

SpecCoop == Init /\ [][NextCoop]_vars

\* s is an initial segment of t.
IsPrefix(s, t) == Len(s) <= Len(t) /\ SubSeq(t, 1, Len(s)) = s

\* The history of the record under key k holds a check-in made at the
\* instant now.
Holds(doc, k, now) ==
    /\ k \in DOMAIN doc
    /\ \E i \in 1..Len(doc[k].history) :
          /\ doc[k].history[i].date = StrfDate(now.day)
          /\ doc[k].history[i].time = StrfTime(now.tod)

\* C27: when invocations switch only at the GET of the almanac and at the
\* bot calls, no step takes a record out of the document or shortens its
\* history, and an invocation that returns after the success reply finds
\* its check-in in the document.
C27_NoLostUpdate ==
    [][/\ \A k \in DOMAIN file :
             /\ k \in DOMAIN file'
             /\ IsPrefix(file[k].history, file'[k].history)
             /\ file'[k].total_days >= file[k].total_days
       /\ last'.kind = "success"
            => Holds(file', Key(last'.user_id, last'.group_id), last'.now)
      ]_vars

\* An invocation returned with the success reply while another one, of
\* another subject, had saved its check-in and was waiting; both
\* check-ins are in the document.
C27_Witness ==
    /\ last.kind = "success"
    /\ Holds(file, LastKey, last.now)
    /\ \E p \in Procs :
          /\ pc[p] \in {"fetching", "send_response"}
          /\ loc[p].key # LastKey
          /\ Holds(file, loc[p].key, loc[p].now)

\* ---------------------------------------------------------- shutdown codes
\* C29: verify_shutdown returns True for an account and a code only when
\* the last handle_shutdown that generated this code was called by this
\* account, then an admin; a code generated for one account is refused
\* from any other; and a code that was never generated is refused with
\* the failure reply.
C29_Binding ==
    reply.op = "verify_shutdown"
    => /\ reply.ret = "True"
            => /\ reply.code \in DOMAIN issued
               /\ issued[reply.code].user_id = reply.user_id
       /\ reply.code \notin DOMAIN issued
            => /\ reply.ret = "False"
               /\ reply.sent = <<Msg(reply.user_id, "failed", "")>>

\* A delegate closed the bot with the code generated for it while a code
\* generated for someone else was outstanding.
C29_Witness ==
    /\ reply.op = "verify_shutdown"
    /\ reply.ret = "True"
    /\ reply.user_id # master_qq
    /\ \E c \in DOMAIN issued : issued[c].user_id # reply.user_id

\* The validity announced with the code: 有效期10分钟.
ValidityMinutes == 10

\* The owner asks for shutdown codes.
ShutdownLater == \E code \in Codes : HandleShutdown(master_qq, code)

\* The owner and an account that is no admin enter codes.
VerifyLater ==
    \E u \in {master_qq, 3}, code \in Codes : VerifyShutdown(u, code)

NextExpiry == Tick \/ ShutdownLater \/ VerifyLater

\* Shutdown codes asked for and entered while time passes.
SpecExpiry == InitDev /\ [][NextExpiry]_vars

\* C30: verify_shutdown returns True only within ValidityMinutes of the
\* handle_shutdown call that generated the code.
C30_Expiry ==
    (reply.op = "verify_shutdown" /\ reply.ret = "True")
    => reply.now - issued[reply.code].at <= ValidityMinutes

====
